---- MODULE Spec2Model ----
(***************************************************************************)
(* A model of the task store of the todo application (Home component),     *)
(* its search-based commands, the recurrence watcher and the reminder      *)
(* poller.                                                                 *)
(*                                                                         *)
(* Timestamps are whole seconds since the model epoch, which is local      *)
(* midnight of a Sunday (the source keeps milliseconds; every timestamp of *)
(* the model is a multiple of 1000 ms).  Daylight-saving shifts are not    *)
(* modelled: a calendar day is DaySec seconds.  An optional field that is  *)
(* undefined in the source is Undefined for a number, "undefined" for a    *)
(* string and the empty sequence for an object or an array.  The fields    *)
(* notes, project and category of a task are never read or written by the  *)
(* operations modelled here and are left out.                              *)
(***************************************************************************)
EXTENDS Integers, Sequences, FiniteSets, TLC

VARIABLES tasks, nextId, feedbackMessage, now, lastCheckTime, effectPending,
          pendingAdds, input, result, view, isLoading, llmCalls, notifications

\* the state of the command line: the text of the input box, the last
\* result of the parser, the view state, the loading flag and the calls of
\* the extraction pipeline that are in flight
uiVars == <<input, result, view, isLoading, llmCalls>>

\* notifications holds the identifiers of the tasks for which the last call
\* of checkReminders showed a notification
vars == <<tasks, nextId, feedbackMessage, now, lastCheckTime, effectPending,
          pendingAdds, input, result, view, isLoading, llmCalls, notifications>>

----------------------------------------------------------------------------
(* Bounds of the model *)

\* most tasks the store holds
MaxTasks == 3
\* the clock stops at this time
MaxNow == 12
\* most addTask calls suspended on the classifier at once
MaxPending == 1

\* the identifiers the command line may draw
MaxId == 6
\* most existing tasks of a call of detectConflicts
MaxExisting == 2

----------------------------------------------------------------------------
(* Values *)

Undefined == -1

\* JavaScript truthiness of an optional number
Truthy(n) == n # Undefined /\ n # 0

DaySec == 24 * 60 * 60

DebounceSec == 5

\* Body(value), with the value computed once
With(value, Body(_)) == CHOOSE r \in {Body(v) : v \in {value}} : TRUE

----------------------------------------------------------------------------
(* Strings are sequences of one-character strings *)

UpperChars == <<"A","B","C","D","E","F","G","H","I","J","K","L","M",
                "N","O","P","Q","R","S","T","U","V","W","X","Y","Z">>

LowerChars == <<"a","b","c","d","e","f","g","h","i","j","k","l","m",
                "n","o","p","q","r","s","t","u","v","w","x","y","z">>

\* the lower-case form of every upper-case letter
LowerOf == [c \in {UpperChars[i] : i \in 1..26} |->
              LowerChars[CHOOSE i \in 1..26 : UpperChars[i] = c]]

ToLowerChar(c) == IF c \in DOMAIN LowerOf THEN LowerOf[c] ELSE c

\* the upper-case form of every lower-case letter
UpperOf == [c \in {LowerChars[i] : i \in 1..26} |->
              UpperChars[CHOOSE i \in 1..26 : LowerChars[i] = c]]

ToUpperChar(c) == IF c \in DOMAIN UpperOf THEN UpperOf[c] ELSE c

\* String.prototype.toLowerCase
toLowerCase(s) == [i \in 1..Len(s) |-> ToLowerChar(s[i])]

\* String.prototype.includes
includes(hay, needle) ==
  \E i \in 0..(Len(hay) - Len(needle)) :
     SubSeq(hay, i + 1, i + Len(needle)) = needle

BuyMilk == <<"b","u","y"," ","m","i","l","k">>
DrinkMilk == <<"D","r","i","n","k"," ","M","i","l","k">>
EatCereal == <<"e","a","t"," ","c","e","r","e","a","l">>

Titles == {BuyMilk, DrinkMilk, EatCereal}

SearchMilk == <<"m","i","l","k">>
SearchDrink == <<"D","R","I","N","K">>
SearchTea == <<"t","e","a">>

SearchTexts == {SearchMilk, SearchDrink, SearchTea}

\* String.prototype.trim
trim(s) ==
  With({i \in 1..Len(s) : s[i] # " "}, LAMBDA solid :
    IF solid = {} THEN <<>>
    ELSE SubSeq(s, CHOOSE i \in solid : \A j \in solid : i <= j,
                   CHOOSE i \in solid : \A j \in solid : j <= i))

----------------------------------------------------------------------------
(* Tasks *)

\* a string field that is undefined
Absent == <<"undefined">>

\* JavaScript truthiness of an optional string
TruthyText(s) == s # Absent /\ s # <<>>

NoFeedback == [msg |-> "null", n |-> 0]

\* showFeedback: the message and the count it interpolates (the search text,
\* tag or priority it also interpolates is left out)
Feedback(msg, n, text) == [msg |-> msg, n |-> n]

\* the recurring field of a task
Recurring(type, interval, daysOfWeek, endDate) ==
  [type |-> type, interval |-> interval, daysOfWeek |-> daysOfWeek, endDate |-> endDate]

\* a task as addTask builds it
NewTask(id, text, tag, tags, priority, dueDate, reminders, createdAt) ==
  [id |-> id, text |-> text, done |-> FALSE, tag |-> tag, tags |-> tags,
   createdAt |-> createdAt, priority |-> priority, status |-> "pending",
   dueDate |-> dueDate, subtasks |-> <<>>, recurring |-> <<>>,
   reminders |-> reminders]

\* text.toLowerCase().includes(searchText.toLowerCase())
TextMatches(text, searchText) ==
  includes(toLowerCase(text), toLowerCase(searchText))

\* TextMatches on the titles and search texts of the model, computed once
MatchTable == [t \in Titles, q \in SearchTexts |-> TextMatches(t, q)]

\* task.text.toLowerCase().includes(searchText.toLowerCase())
Matches(task, searchText) ==
  IF <<task.text, searchText>> \in DOMAIN MatchTable
    THEN MatchTable[task.text, searchText]
    ELSE TextMatches(task.text, searchText)

----------------------------------------------------------------------------
(* tickTasksByText *)

\* the mutant: the first-match rule is forgotten
TickSkipsNever(tickAll, modifiedCount) == FALSE

\* if (!tickAll && modifiedCount > 0) return task
TickSkips(tickAll, modifiedCount) == ~tickAll /\ modifiedCount > 0

\* the mutant: the title is not compared
TickHitAnyTitle(task, searchText) == ~task.done

\* the condition of the map callback
TickHit(task, searchText) == Matches(task, searchText) /\ ~task.done

\* tasks.map(...) of tickTasksByText with its counter, from index i on
RECURSIVE TickMap(_, _, _, _, _)
TickMap(ts, i, searchText, tickAll, modifiedCount) ==
  IF i > Len(ts) THEN [tasks |-> <<>>, count |-> modifiedCount]
  ELSE LET t == ts[i]
           change == TickHit(t, searchText) /\ ~TickSkips(tickAll, modifiedCount)
           rest == TickMap(ts, i + 1, searchText, tickAll,
                           IF change THEN modifiedCount + 1 ELSE modifiedCount)
       IN [tasks |-> <<IF change THEN [t EXCEPT !.done = TRUE] ELSE t>> \o rest.tasks,
           count |-> rest.count]

tickTasksByText(searchText, tickAll) ==
  LET r == TickMap(tasks, 1, searchText, tickAll, 0)
  IN /\ tasks' = r.tasks
     /\ effectPending' = TRUE
     /\ feedbackMessage' =
          IF r.count > 0
            THEN Feedback("Completed task(s) matching", r.count, searchText)
            ELSE Feedback("No matching incomplete tasks found for", 0, searchText)
     /\ UNCHANGED <<nextId, now, lastCheckTime, notifications, pendingAdds>>

----------------------------------------------------------------------------
(* deleteTasksByText *)

\* the mutant: every match is deleted
DeleteKeepsNever(deleteAll, deletedCount) == FALSE

\* if (!deleteAll && deletedCount > 0) tasksToKeep.push(task)
DeleteKeeps(deleteAll, deletedCount) == ~deleteAll /\ deletedCount > 0

\* the for loop of deleteTasksByText, from index i on
RECURSIVE DeleteLoop(_, _, _, _, _)
DeleteLoop(ts, i, searchText, deleteAll, deletedCount) ==
  IF i > Len(ts) THEN [tasks |-> <<>>, count |-> deletedCount]
  ELSE LET t == ts[i]
           drop == Matches(t, searchText) /\ ~DeleteKeeps(deleteAll, deletedCount)
           rest == DeleteLoop(ts, i + 1, searchText, deleteAll,
                              IF drop THEN deletedCount + 1 ELSE deletedCount)
       IN [tasks |-> (IF drop THEN <<>> ELSE <<t>>) \o rest.tasks,
           count |-> rest.count]

deleteTasksByText(searchText, deleteAll) ==
  LET r == DeleteLoop(tasks, 1, searchText, deleteAll, 0)
  IN /\ IF r.count > 0
          THEN /\ tasks' = r.tasks
               /\ effectPending' = TRUE
               /\ feedbackMessage' = Feedback("Deleted task(s) matching", r.count, searchText)
          ELSE /\ UNCHANGED <<tasks, effectPending>>
               /\ feedbackMessage' = Feedback("No matching tasks found for", 0, searchText)
     /\ UNCHANGED <<nextId, now, lastCheckTime, notifications, pendingAdds>>

----------------------------------------------------------------------------
(* updateTaskTag, updateTaskPriority, handleDueDate *)

\* the mutant: the search text is compared case-sensitively
UpdateHitCaseSensitive(task, searchText) == includes(task.text, searchText)

\* the condition of the map callback of the three functions
UpdateHit(task, searchText) == Matches(task, searchText)

\* the number of tasks the map callback modified
ModifiedCount(ts, searchText) ==
  Cardinality({i \in 1..Len(ts) : UpdateHit(ts[i], searchText)})

updateTaskTag(searchText, newTag) ==
  /\ tasks' = [i \in 1..Len(tasks) |->
                 IF UpdateHit(tasks[i], searchText)
                   THEN [tasks[i] EXCEPT !.tag = newTag] ELSE tasks[i]]
  /\ effectPending' = TRUE
  /\ feedbackMessage' =
       IF ModifiedCount(tasks, searchText) > 0
         THEN Feedback("Updated tag for task(s)", ModifiedCount(tasks, searchText), newTag)
         ELSE Feedback("No matching tasks found for", 0, searchText)
  /\ UNCHANGED <<nextId, now, lastCheckTime, notifications, pendingAdds>>

updateTaskPriority(searchText, priority) ==
  /\ tasks' = [i \in 1..Len(tasks) |->
                 IF UpdateHit(tasks[i], searchText)
                   THEN [tasks[i] EXCEPT !.priority = priority] ELSE tasks[i]]
  /\ effectPending' = TRUE
  /\ feedbackMessage' =
       IF ModifiedCount(tasks, searchText) > 0
         THEN Feedback("Set priority for task(s)", ModifiedCount(tasks, searchText), <<priority>>)
         ELSE Feedback("No matching tasks found for", 0, searchText)
  /\ UNCHANGED <<nextId, now, lastCheckTime, notifications, pendingAdds>>

handleDueDate(searchText, dueDate) ==
  /\ tasks' = [i \in 1..Len(tasks) |->
                 IF UpdateHit(tasks[i], searchText)
                   THEN [tasks[i] EXCEPT !.dueDate = dueDate] ELSE tasks[i]]
  /\ effectPending' = TRUE
  /\ feedbackMessage' =
       IF ModifiedCount(tasks, searchText) > 0
         THEN Feedback("Updated due date for task(s)", ModifiedCount(tasks, searchText), <<>>)
         ELSE Feedback("No matching tasks found for", 0, searchText)
  /\ UNCHANGED <<nextId, now, lastCheckTime, notifications, pendingAdds>>

\* setTimeout(() => setFeedbackMessage(null), 3000)
clearFeedback ==
  /\ feedbackMessage # NoFeedback
  /\ feedbackMessage' = NoFeedback
  /\ UNCHANGED <<tasks, nextId, now, lastCheckTime, notifications, effectPending, pendingAdds>>

----------------------------------------------------------------------------
(* Dates: the Date methods the recurrence watcher uses *)

\* day 0 of the model is Sunday 1 January 2023; month m counts from there
DaysInMonth(m) ==
  LET lengths == <<31, 28, 31, 30, 31, 30, 31, 31, 30, 31, 30, 31>>
      year == 2023 + (m \div 12)
  IN IF m % 12 = 1 /\ year % 4 = 0 THEN 29 ELSE lengths[(m % 12) + 1]

\* the day number of the first day of month m
RECURSIVE MonthStart(_)
MonthStart(m) == IF m = 0 THEN 0 ELSE MonthStart(m - 1) + DaysInMonth(m - 1)

DayOf(ts) == ts \div DaySec

TimeOfDay(ts) == ts % DaySec

\* Date.prototype.getDay: 0 is Sunday
getDay(ts) == DayOf(ts) % 7

\* Date.prototype.getMonth, counted from the model epoch
getMonth(ts) ==
  CHOOSE m \in 0..47 : MonthStart(m) <= DayOf(ts) /\ DayOf(ts) < MonthStart(m + 1)

\* d.setDate(d.getDate() + n)
AddDays(ts, n) == ts + n * DaySec

\* d.setMonth(d.getMonth() + n): the day of the month is kept and overflows
\* into the following month
AddMonths(ts, n) ==
  LET m == getMonth(ts)
      dayOfMonth == DayOf(ts) - MonthStart(m)
  IN (MonthStart(m + n) + dayOfMonth) * DaySec + TimeOfDay(ts)

\* [...days].sort() on weekday numbers 0..6
RECURSIVE SortDays(_)
SortDays(days) ==
  IF Len(days) = 0 THEN <<>>
  ELSE LET k == CHOOSE i \in 1..Len(days) : \A j \in 1..Len(days) : days[i] <= days[j]
       IN <<days[k]>> \o SortDays(SubSeq(days, 1, k - 1) \o SubSeq(days, k + 1, Len(days)))

----------------------------------------------------------------------------
(* The recurrence watcher: the effect of Home that depends on tasks *)

\* the mutant: the interval of a daily rule is ignored
DailyNextOneDay(dueDate, interval) == AddDays(dueDate, 1)

\* daily: nextDate.setDate(nextDate.getDate() + interval)
DailyNext(dueDate, interval) == AddDays(dueDate, interval)

\* weekly: 7 * interval days on, then on to a day of daysOfWeek
WeeklyNext(dueDate, interval, daysOfWeek) ==
  LET advanced == AddDays(dueDate, 7 * interval)
      currentDayOfWeek == getDay(advanced)
      availableDays == SortDays(daysOfWeek)
      later == {i \in 1..Len(availableDays) : availableDays[i] > currentDayOfWeek}
  IN IF Len(daysOfWeek) = 0 THEN advanced
     ELSE IF later # {}
       THEN AddDays(advanced,
                    availableDays[CHOOSE i \in later : \A j \in later : i <= j]
                      - currentDayOfWeek)
       ELSE AddDays(advanced, 7 - currentDayOfWeek + availableDays[1])

\* monthly: nextDate.setMonth(nextDate.getMonth() + interval)
MonthlyNext(dueDate, interval) == AddMonths(dueDate, interval)

\* nextDate of a done recurring task, Undefined when none is created
NextDate(task) ==
  LET r == task.recurring[1]
      next == IF r.type = "daily" THEN DailyNext(task.dueDate, r.interval)
              ELSE IF r.type = "weekly"
                THEN WeeklyNext(task.dueDate, r.interval, r.daysOfWeek)
              ELSE IF r.type = "monthly" THEN MonthlyNext(task.dueDate, r.interval)
              ELSE Undefined
  IN IF ~Truthy(task.dueDate) THEN Undefined
     ELSE IF Truthy(r.endDate) /\ next # Undefined /\ next > r.endDate THEN Undefined
     ELSE next

\* the reminders of the new instance; their ids are id, id + 1, ...
NewReminders(task, nextDate, id) ==
  [k \in 1..Len(task.reminders) |->
     LET reminder == task.reminders[k]
     IN [id |-> id + k - 1,
         time |-> IF reminder.type = "relative" /\ Truthy(task.dueDate)
                    THEN nextDate - (task.dueDate - reminder.time)
                    ELSE reminder.time,
         notified |-> FALSE,
         type |-> reminder.type]]

\* the subtasks of the new instance; their ids are id, id + 1, ...
NewSubtasks(task, id) ==
  [k \in 1..Len(task.subtasks) |->
     [id |-> id + k - 1, text |-> task.subtasks[k].text, done |-> FALSE]]

\* the number of uuidv4() calls that create one new instance
IdsUsed(task) == 1 + Len(task.reminders) + Len(task.subtasks)

\* the mutant: the new instance keeps the id spread from the original
RegeneratedKeepsId(task, nextDate, id, createdAt) ==
  [task EXCEPT !.done = FALSE,
               !.status = "pending",
               !.createdAt = createdAt,
               !.dueDate = nextDate,
               !.reminders = NewReminders(task, nextDate, id + 1),
               !.subtasks = NewSubtasks(task, id + 1 + Len(task.reminders))]

\* the task pushed onto updatedTasks
Regenerated(task, nextDate, id, createdAt) ==
  [task EXCEPT !.id = id,
               !.done = FALSE,
               !.status = "pending",
               !.createdAt = createdAt,
               !.dueDate = nextDate,
               !.reminders = NewReminders(task, nextDate, id + 1),
               !.subtasks = NewSubtasks(task, id + 1 + Len(task.reminders))]

\* if (task.recurring && task.done) with a nextDate
Regenerates(task) ==
  /\ Len(task.recurring) > 0
  /\ task.done
  /\ NextDate(task) # Undefined

\* tasks.forEach(...) of the effect from index i on: the tasks pushed and
\* the next unused id
RECURSIVE RegenLoop(_, _, _, _)
RegenLoop(ts, i, id, createdAt) ==
  IF i > Len(ts) THEN [added |-> <<>>, id |-> id]
  ELSE IF Regenerates(ts[i])
    THEN LET rest == RegenLoop(ts, i + 1, id + IdsUsed(ts[i]), createdAt)
         IN [added |-> <<Regenerated(ts[i], NextDate(ts[i]), id, createdAt)>> \o rest.added,
             id |-> rest.id]
    ELSE RegenLoop(ts, i + 1, id, createdAt)

\* the effect runs after every render in which tasks changed; it appends for
\* as long as the store holds at most MaxTasks tasks
RecurrenceEffect ==
  LET r == RegenLoop(tasks, 1, nextId, now)
  IN /\ effectPending
     /\ Len(tasks) + Len(r.added) <= MaxTasks
     /\ IF Len(r.added) > 0
          THEN /\ tasks' = tasks \o r.added
               /\ nextId' = r.id
               /\ effectPending' = TRUE
          ELSE /\ effectPending' = FALSE
               /\ UNCHANGED <<tasks, nextId>>
     /\ UNCHANGED <<feedbackMessage, now, lastCheckTime, notifications, pendingAdds>>

\* toggleTask
toggleTask(id) ==
  /\ \E i \in 1..Len(tasks) : tasks[i].id = id
  /\ tasks' = [i \in 1..Len(tasks) |->
                 IF tasks[i].id = id
                   THEN [tasks[i] EXCEPT !.done = ~tasks[i].done] ELSE tasks[i]]
  /\ effectPending' = TRUE
  /\ UNCHANGED <<nextId, feedbackMessage, now, lastCheckTime, notifications, pendingAdds>>

----------------------------------------------------------------------------
(* Task controls: status select, batch buttons *)

\* handleTaskUpdate(id, updates) applied to the list ts
WithStatus(ts, id, status) ==
  [i \in 1..Len(ts) |->
     IF ts[i].id = id THEN [ts[i] EXCEPT !.status = status] ELSE ts[i]]

\* toggleTask(id) applied to the list ts
WithToggle(ts, id) ==
  [i \in 1..Len(ts) |->
     IF ts[i].id = id THEN [ts[i] EXCEPT !.done = ~ts[i].done] ELSE ts[i]]

\* handleStatusChange of the Task component: onUpdate(id, {status}) and then,
\* for "completed" on a task that is not done, onToggle(id); both handlers
\* were made by the same render, so both compute from that render's tasks
\* and the second setTasks replaces the first
handleStatusChange(id, newStatus) ==
  /\ \E i \in 1..Len(tasks) : tasks[i].id = id
  /\ LET done == (CHOOSE i \in 1..Len(tasks) : tasks[i].id = id) \in
                   {i \in 1..Len(tasks) : tasks[i].done}
     IN tasks' = IF newStatus = "completed" /\ ~done
                   THEN WithToggle(tasks, id)
                   ELSE WithStatus(tasks, id, newStatus)
  /\ effectPending' = TRUE
  /\ UNCHANGED <<nextId, feedbackMessage, now, lastCheckTime, notifications, pendingAdds>>

\* BatchActions onComplete
batchComplete ==
  LET n == Cardinality({i \in 1..Len(tasks) : ~tasks[i].done /\ tasks[i].status = "pending"})
  IN /\ IF n > 0
          THEN /\ tasks' = [i \in 1..Len(tasks) |->
                              IF tasks[i].status = "pending"
                                THEN [tasks[i] EXCEPT !.done = TRUE] ELSE tasks[i]]
               /\ effectPending' = TRUE
               /\ feedbackMessage' = Feedback("Completed tasks", n, <<>>)
          ELSE /\ UNCHANGED <<tasks, effectPending>>
               /\ feedbackMessage' = Feedback("No active tasks to complete", 0, <<>>)
     /\ UNCHANGED <<nextId, now, lastCheckTime, notifications, pendingAdds>>

\* BatchActions onArchive
batchArchive ==
  LET n == Cardinality({i \in 1..Len(tasks) : tasks[i].done})
  IN /\ IF n > 0
          THEN /\ tasks' = [i \in 1..Len(tasks) |->
                              IF tasks[i].done
                                THEN [tasks[i] EXCEPT !.status = "archived"] ELSE tasks[i]]
               /\ effectPending' = TRUE
               /\ feedbackMessage' = Feedback("Archived completed tasks", n, <<>>)
          ELSE /\ UNCHANGED <<tasks, effectPending>>
               /\ feedbackMessage' = Feedback("No completed tasks to archive", 0, <<>>)
     /\ UNCHANGED <<nextId, now, lastCheckTime, notifications, pendingAdds>>

----------------------------------------------------------------------------
(* The reminder poller: checkReminders of useReminderCheck *)

\* !r.notified && r.time <= now
Triggered(reminder, time) == ~reminder.notified /\ reminder.time <= time

\* task.reminders.some(r => !r.notified && r.time <= now)
HasTriggered(task, time) ==
  \E k \in 1..Len(task.reminders) : Triggered(task.reminders[k], time)

\* the task list checkReminders builds
MarkNotified(ts, time) ==
  [i \in 1..Len(ts) |->
     IF HasTriggered(ts[i], time)
       THEN [ts[i] EXCEPT !.reminders =
               [k \in 1..Len(ts[i].reminders) |->
                  IF Triggered(ts[i].reminders[k], time)
                    THEN [ts[i].reminders[k] EXCEPT !.notified = TRUE]
                    ELSE ts[i].reminders[k]]]
       ELSE ts[i]]

\* the identifiers of the tasks for which the map callback of a pass at
\* time calls showNotification
ShownFor(ts, time) ==
  [k \in 1..Len(SelectSeq(ts, LAMBDA task :
       HasTriggered(task, time) /\ task.status # "completed" /\ task.status # "archived")) |->
     SelectSeq(ts, LAMBDA task :
       HasTriggered(task, time) /\ task.status # "completed" /\ task.status # "archived")[k].id]

\* checkReminders after its check of the time gap
ReminderPass ==
  /\ lastCheckTime' = now
  /\ notifications' = ShownFor(tasks, now)
  /\ IF \E i \in 1..Len(tasks) : HasTriggered(tasks[i], now)
       THEN /\ tasks' = MarkNotified(tasks, now)
            /\ effectPending' = TRUE
       ELSE UNCHANGED <<tasks, effectPending>>
  /\ UNCHANGED <<nextId, feedbackMessage, now, pendingAdds>>

\* a pass of the poller that is not debounced (a debounced pass returns at
\* once and changes nothing)
checkReminders ==
  /\ now - lastCheckTime >= DebounceSec
  /\ ReminderPass

\* a check of the time gap that lets every call pass
NeverDebounced(time, last) == FALSE

\* if (now - lastCheckTime < 5000) return
Debounced(time, last) == time - last < DebounceSec

\* checkReminders() as the interval, the mount and the re-run of the
\* effect call it: the callback of the last render
pollReminders ==
  IF Debounced(now, lastCheckTime)
    THEN /\ notifications' = <<>>
         /\ UNCHANGED <<tasks, nextId, feedbackMessage, now, lastCheckTime,
                        effectPending, pendingAdds>>
    ELSE ReminderPass

\* the time 0 of Date, long before the epoch of the model
TimeZero == 0 - DaySec

\* checkRemindersNow(): setLastCheckTime(0) and then checkReminders() of the
\* same render, which still compares with the lastCheckTime of before the
\* reset.  The setLastCheckTime(now) of a pass comes after the reset and
\* wins; after a debounced call the state is 0, and the render it causes
\* makes a new checkReminders, on which the effect runs again and calls it.
checkRemindersNow ==
  IF Debounced(now, lastCheckTime)
    THEN /\ lastCheckTime' = TimeZero
         /\ notifications' = <<>>
         /\ UNCHANGED <<tasks, nextId, feedbackMessage, now, effectPending, pendingAdds>>
    ELSE ReminderPass

\* time passes
Tick(d) ==
  /\ now + d <= MaxNow
  /\ now' = now + d
  /\ UNCHANGED <<tasks, nextId, feedbackMessage, lastCheckTime, notifications, effectPending, pendingAdds>>

----------------------------------------------------------------------------
(* addTask *)

\* the arguments of addTask after the text; hasTags tells whether
\* providedTags is given
AddArgs(providedTag, priority, dueDate, reminders, hasTags, providedTags) ==
  [providedTag |-> providedTag, priority |-> priority, dueDate |-> dueDate,
   reminders |-> reminders, hasTags |-> hasTags, providedTags |-> providedTags]

\* addTask(text)
NoArgs == AddArgs(Absent, "undefined", Undefined, <<>>, FALSE, <<>>)

\* the task that setTasks appends, with tag the provided or classified tag
AddedTask(id, text, args, tag, createdAt) ==
  NewTask(id, text, tag,
          IF args.hasTags THEN args.providedTags
          ELSE IF tag # <<>> THEN <<tag>> ELSE <<>>,
          args.priority, args.dueDate, args.reminders, createdAt)

\* what a call of addTask does to the store before it returns or awaits:
\* nothing for a blank text, the whole addition when a tag is provided, and
\* else the call waits for the classifier with the tasks of its render.
\* The identifiers of the reminders of args were drawn by the caller, from
\* nextId on.
AddTaskEffect(text, args) ==
  IF trim(text) = <<>>
    THEN UNCHANGED <<tasks, nextId, feedbackMessage, effectPending, pendingAdds>>
  ELSE IF TruthyText(args.providedTag)
    THEN /\ tasks' = Append(tasks, AddedTask(nextId + Len(args.reminders), text, args,
                                             args.providedTag, now))
         /\ nextId' = nextId + Len(args.reminders) + 1
         /\ effectPending' = TRUE
         /\ feedbackMessage' = Feedback("Added task", 0, text)
         /\ UNCHANGED pendingAdds
    ELSE /\ pendingAdds' = Append(pendingAdds, [text |-> text, tasks |-> tasks, args |-> args])
         /\ nextId' = nextId + Len(args.reminders)
         /\ UNCHANGED <<tasks, feedbackMessage, effectPending>>

\* addTask(text) up to `await classifyTask(text)`
addTaskStart(text) ==
  /\ trim(text) # <<>>
  /\ Len(pendingAdds) < MaxPending
  /\ Len(tasks) < MaxTasks
  /\ AddTaskEffect(text, NoArgs)
  /\ isLoading' = TRUE
  /\ UNCHANGED <<now, lastCheckTime, notifications, input, result, view, llmCalls>>

\* the pending calls without call k
WithoutCall(k) == SubSeq(pendingAdds, 1, k - 1) \o SubSeq(pendingAdds, k + 1, Len(pendingAdds))

\* the classifier answers call k with a label: setTasks([...tasks, {...}])
addTaskResolve(k, label) ==
  /\ k \in 1..Len(pendingAdds)
  /\ tasks' = Append(pendingAdds[k].tasks,
                     AddedTask(nextId, pendingAdds[k].text, pendingAdds[k].args, label, now))
  /\ nextId' = nextId + 1
  /\ effectPending' = TRUE
  /\ feedbackMessage' = Feedback("Added task", 0, pendingAdds[k].text)
  /\ pendingAdds' = WithoutCall(k)
  /\ input' = <<>>
  /\ isLoading' = FALSE
  /\ UNCHANGED <<now, lastCheckTime, notifications, result, view, llmCalls>>

\* the classifier call of call k throws: the catch block of addTask
addTaskReject(k) ==
  /\ k \in 1..Len(pendingAdds)
  /\ feedbackMessage' = Feedback("Error adding task", 0, <<>>)
  /\ pendingAdds' = WithoutCall(k)
  /\ isLoading' = FALSE
  /\ UNCHANGED <<tasks, nextId, now, lastCheckTime, notifications, effectPending, input, result, view, llmCalls>>

----------------------------------------------------------------------------
(* String functions and regular expressions of the command parser *)

DigitChars == <<"0","1","2","3","4","5","6","7","8","9">>

IsDigit(c) == \E i \in 1..10 : DigitChars[i] = c

IsLetter(c) == \E i \in 1..26 : LowerChars[i] = c \/ UpperChars[i] = c

\* membership of a character in a class of the regular expressions: \s, \S,
\* \w, \d, [a-z] under the i flag, [\s.,!?] and the dot (the only white
\* space of the inputs is the blank, and they hold no line terminator)
InClass(c, cls) ==
  CASE cls = "s" -> c = " "
    [] cls = "S" -> c # " "
    [] cls = "w" -> IsLetter(c) \/ IsDigit(c) \/ c = "_"
    [] cls = "d" -> IsDigit(c)
    [] cls = "a" -> IsLetter(c)
    [] cls = "p" -> c \in {" ", ".", ",", "!", "?"}
    [] cls = "." -> TRUE

\* String.prototype.startsWith
startsWith(s, prefix) ==
  Len(prefix) <= Len(s) /\ SubSeq(s, 1, Len(prefix)) = prefix

\* String.prototype.substring(start)
substring(s, start) == SubSeq(s, start + 1, Len(s))

\* the value of a digit character
DigitValue(c) == (CHOOSE i \in 1..10 : DigitChars[i] = c) - 1

\* parseInt of a string of digits
RECURSIVE parseInt(_)
parseInt(s) ==
  IF s = <<>> THEN 0
  ELSE 10 * parseInt(SubSeq(s, 1, Len(s) - 1)) + DigitValue(s[Len(s)])

\* String(n) of a natural number
RECURSIVE String(_)
String(n) ==
  IF n < 10 THEN <<DigitChars[n + 1]>>
  ELSE String(n \div 10) \o <<DigitChars[(n % 10) + 1]>>

\* the atoms of a regular expression: a literal text, or a character class
\* repeated min..max times, greedily or lazily
Lit(str) ==
  [kind |-> "lit", str |-> str, alts |-> <<>>, cls |-> ".", min |-> 0, max |-> 0,
   greedy |-> TRUE]

Rep(cls, min, max, greedy) ==
  [kind |-> "rep", str |-> <<>>, alts |-> <<>>, cls |-> cls, min |-> min,
   max |-> max, greedy |-> greedy]

\* the atom (a|b|...) of literal texts, tried in their order; an optional
\* literal (a)? is the atom (a|) with the empty text last
Alt(alts) ==
  [kind |-> "alt", str |-> <<>>, alts |-> alts, cls |-> ".", min |-> 0, max |-> 0,
   greedy |-> TRUE]

\* the atom $ inside a pattern
End ==
  [kind |-> "end", str |-> <<>>, alts |-> <<>>, cls |-> ".", min |-> 0, max |-> 0,
   greedy |-> TRUE]

\* no upper limit of a repetition (longer than every input)
Many == 999 + 1

\* the result of a match that fails
NoMatch == <<0>>

\* the length of the longest run of class cls in s from position i, at most max
Run(s, i, cls, max) ==
  With(IF max < Len(s) - i + 1 THEN max ELSE Len(s) - i + 1, LAMBDA limit :
    CHOOSE c \in 0..limit :
      /\ \A d \in 0..(c - 1) : InClass(s[i + d], cls)
      /\ c = limit \/ ~InClass(s[i + c], cls))

\* \b at position i of s: exactly one of the characters before and at i
\* is a word character
WordBoundary(s, i) ==
  (i > 1 /\ InClass(s[i - 1], "w")) # (i <= Len(s) /\ InClass(s[i], "w"))

\* the atom \b
Boundary ==
  [kind |-> "wb", str |-> <<>>, alts |-> <<>>, cls |-> ".", min |-> 0, max |-> 0,
   greedy |-> TRUE]

\* position j followed by the rest of a match, or NoMatch when the rest fails
Then(j, rest) == IF rest = NoMatch THEN NoMatch ELSE <<j>> \o rest

\* the first of the tries of an atom with which the rest of the pattern
\* matches; a try is <<rank, position after the atom, match of the rest>>,
\* and the try of the least rank is the first
FirstGood(tries) ==
  With({t \in tries : t[3] # NoMatch}, LAMBDA good :
    IF good = {} THEN NoMatch
    ELSE With(CHOOSE t \in good : \A u \in good : t[1] <= u[1], LAMBDA t :
           <<t[2]>> \o t[3]))

\* the backtracking match of the atoms k.. of pattern p on s from position i
\* up to the end of s ($), for every k and i: the position after each atom,
\* or NoMatch.  Each repetition takes the first length, and each group of
\* alternatives the first alternative, in its order of preference, with
\* which the rest of the pattern matches.
Matcher(p, s) ==
  LET match[k \in 1..(Len(p) + 1), i \in 1..(Len(s) + 1)] ==
        IF k > Len(p) THEN (IF i = Len(s) + 1 THEN <<>> ELSE NoMatch)
        ELSE IF p[k].kind = "lit"
          THEN With(i + Len(p[k].str), LAMBDA j :
                 IF j <= Len(s) + 1 /\ SubSeq(s, i, j - 1) = p[k].str
                   THEN With(match[k + 1, j], LAMBDA rest : Then(j, rest))
                   ELSE NoMatch)
        ELSE IF p[k].kind \in {"wb", "end"}
          THEN IF (p[k].kind = "wb" /\ WordBoundary(s, i)) \/ (p[k].kind = "end" /\ i = Len(s) + 1)
                 THEN With(match[k + 1, i], LAMBDA rest : Then(i, rest))
                 ELSE NoMatch
        ELSE IF p[k].kind = "alt"
          THEN FirstGood({<<a, i + Len(p[k].alts[a]), match[k + 1, i + Len(p[k].alts[a])]>> :
                            a \in {x \in 1..Len(p[k].alts) :
                                     /\ i + Len(p[k].alts[x]) <= Len(s) + 1
                                     /\ SubSeq(s, i, i + Len(p[k].alts[x]) - 1) = p[k].alts[x]}})
          ELSE With(Run(s, i, p[k].cls, p[k].max), LAMBDA run :
                 FirstGood({<<IF p[k].greedy THEN run - c ELSE c, i + c, match[k + 1, i + c]>> :
                              c \in p[k].min..run}))
  IN match

MatchFrom(p, k, s, i) == With(<<p, s>>, LAMBDA ps : Matcher(ps[1], ps[2])[k, i])

\* String.prototype.match with a pattern anchored by ^ and $
Match(p, s) == MatchFrom(p, 1, s, 1)

\* the text matched by the atoms from..to of the pattern
Group(s, m, from, to) ==
  SubSeq(s, IF from = 1 THEN 1 ELSE m[from - 1], m[to] - 1)

\* the first match of the tries, which are pairs <<rank, match>>, as
\* [n, m] with n the least rank of a match, or n = 0
FirstMatching(tries) ==
  With({t \in tries : t[2] # NoMatch}, LAMBDA good :
    IF good = {} THEN [n |-> 0, m |-> NoMatch]
    ELSE With(CHOOSE t \in good : \A u \in good : t[1] <= u[1], LAMBDA t :
           [n |-> t[1], m |-> t[2]]))

\* the first of the patterns ps from the n-th on, not anchored at the end,
\* that matches s at position i: [n, m] with the position after each atom,
\* or n = 0
FirstMatchAt(ps, s, i, n) ==
  With(FirstMatching({<<x, MatchFrom(ps[x] \o <<Rep(".", 0, Many, TRUE)>>, 1, s, i)>> :
                   x \in n..Len(ps)}), LAMBDA first :
    IF first.n = 0 THEN first
    ELSE [n |-> first.n, m |-> SubSeq(first.m, 1, Len(ps[first.n]))])

\* the leftmost match of one of the patterns ps in s at or after position
\* from: [at, n, m], or n = 0 (RegExp.prototype.exec)
Search(ps, s, from) ==
  With({<<i, FirstMatchAt(ps, s, i, 1)>> : i \in from..(Len(s) + 1)}, LAMBDA all :
    With({t \in all : t[2].n # 0}, LAMBDA found :
      IF found = {} THEN [at |-> 0, n |-> 0, m |-> NoMatch]
      ELSE With(CHOOSE t \in found : \A u \in found : t[1] <= u[1], LAMBDA t :
             [at |-> t[1], n |-> t[2].n, m |-> t[2].m])))

\* the position after a match of Search
MatchEnd(found) == IF found.m = <<>> THEN found.at ELSE found.m[Len(found.m)]

\* the text matched by the atoms from..to of a pattern of Search
GroupAt(s, found, from, to) ==
  SubSeq(s, IF from = 1 THEN found.at ELSE found.m[from - 1], found.m[to] - 1)

\* RegExp.prototype.test
Test(ps, s) == Search(ps, s, 1).n # 0

\* s.replace(pattern, '') for a pattern without the g flag
RemoveFirst(ps, s) ==
  With(Search(ps, s, 1), LAMBDA found :
    IF found.n = 0 THEN s
    ELSE SubSeq(s, 1, found.at - 1) \o SubSeq(s, MatchEnd(found), Len(s)))

\* s.replace(pattern, by) for a pattern with the g flag, from position from
\* on (no pattern of the model matches the empty text)
RECURSIVE ReplaceAllFrom(_, _, _, _)
ReplaceAllFrom(ps, s, by, from) ==
  With(Search(ps, s, from), LAMBDA found :
    IF found.n = 0 THEN SubSeq(s, from, Len(s))
    ELSE SubSeq(s, from, found.at - 1) \o by
         \o With(MatchEnd(found), LAMBDA next : ReplaceAllFrom(ps, s, by, next)))

ReplaceAll(ps, s, by) == With(<<ps, s>>, LAMBDA a : ReplaceAllFrom(a[1], a[2], by, 1))

\* \s+, \S+, \w+, .+ and .*?
Spaces == Rep("s", 1, Many, TRUE)
Solid == Rep("S", 1, Many, TRUE)
Word == Rep("w", 1, Many, TRUE)
Rest == Rep(".", 1, Many, TRUE)
Lazy == Rep(".", 0, Many, FALSE)

\* the first of the patterns ps from the n-th on that matches s, as [n, m],
\* or n = 0; the alternatives of a group (a|b) and of an optional group are
\* tried in order
FirstMatch(ps, s, n) == FirstMatching({<<x, Match(ps[x], s)>> : x \in n..Len(ps)})

----------------------------------------------------------------------------
(* parseCommand: the rule-based command parser *)

\* a CommandResult with only type and confidence set
Result(type, confidence) ==
  [type |-> type, confidence |-> confidence, taskText |-> Absent,
   tag |-> Absent, searchTerm |-> Absent, allMatches |-> FALSE,
   priority |-> "undefined", dueDate |-> Undefined, dueSpec |-> Absent,
   reminderTime |-> Undefined, reminderSpec |-> Absent,
   reminderRelativeHours |-> Undefined, subtaskText |-> Absent,
   parentTaskSearch |-> Absent, recurringType |-> "undefined",
   recurringInterval |-> Undefined, recurringDays |-> <<>>,
   projectName |-> Absent, project |-> Absent,
   sortCriteria |-> "undefined", snoozeAmount |-> Undefined,
   snoozeUnit |-> "undefined"]

\* the return at the end of parseCommandRuleBased
Unknown == Result("unknown", 0)

\* the value of a priority word
PriorityOf(word) ==
  CASE word = <<"h","i","g","h">> -> "high"
    [] word = <<"m","e","d","i","u","m">> -> "medium"
    [] word = <<"l","o","w">> -> "low"
    [] OTHER -> "undefined"

\* /^add\s+subtask\s+(.*?)\s+to\s+(.*?)$/
AddSubtaskPattern ==
  <<Lit(<<"a","d","d">>), Spaces, Lit(<<"s","u","b","t","a","s","k">>), Spaces, Lazy, Spaces, Lit(<<"t","o">>), Spaces, Lazy>>

\* /^add\s+(.*?)\s+to\s+(.*?)\s+project$/
AddProjectPattern ==
  <<Lit(<<"a","d","d">>), Spaces, Lazy, Spaces, Lit(<<"t","o">>), Spaces, Lazy, Spaces, Lit(<<"p","r","o","j","e","c","t">>)>>

\* /^(.*?)(?:\s+#(\w+))?$/ with its optional group taking part
HashtagPattern == <<Lazy, Spaces, Lit(<<"#">>), Word>>

\* /^(.*?)\s+as\s+(\w+)$/
AsPattern == <<Lazy, Spaces, Lit(<<"a","s">>), Spaces, Word>>

\* /^(.*?)\s+!(\w+)$/
PriorityMarkPattern == <<Lazy, Spaces, Lit(<<"!">>), Word>>

\* the branch `if (text.startsWith('add '))`, which always returns
ParseAdd(text) ==
  IF /\ includes(text, <<" ","s","u","b","t","a","s","k"," ">>)
     /\ includes(text, <<" ","t","o"," ">>)
     /\ Match(AddSubtaskPattern, text) # NoMatch
    THEN With(Match(AddSubtaskPattern, text), LAMBDA subtaskMatch :
           [Result("subtask", 1) EXCEPT
              !.subtaskText = trim(Group(text, subtaskMatch, 5, 5)),
              !.parentTaskSearch = trim(Group(text, subtaskMatch, 9, 9))])
  ELSE IF /\ includes(text, <<" ","t","o"," ">>)
          /\ includes(text, <<" ","p","r","o","j","e","c","t">>)
          /\ Match(AddProjectPattern, text) # NoMatch
    THEN With(Match(AddProjectPattern, text), LAMBDA projectMatch :
           [Result("add", 1) EXCEPT
              !.taskText = trim(Group(text, projectMatch, 3, 3)),
              !.project = trim(Group(text, projectMatch, 7, 7))])
  ELSE With(trim(substring(text, 4)), LAMBDA taskText :
    With(Match(HashtagPattern, taskText), LAMBDA hashtagMatch :
      IF hashtagMatch # NoMatch
        THEN [Result("add", 1) EXCEPT
                !.taskText = trim(Group(taskText, hashtagMatch, 1, 1)),
                !.tag = toLowerCase(Group(taskText, hashtagMatch, 4, 4))]
      ELSE With(Match(AsPattern, taskText), LAMBDA asMatch :
        IF asMatch # NoMatch
          THEN [Result("add", 1) EXCEPT
                  !.taskText = trim(Group(taskText, asMatch, 1, 1)),
                  !.tag = toLowerCase(Group(taskText, asMatch, 5, 5))]
        ELSE With(Match(PriorityMarkPattern, taskText), LAMBDA priorityMatch :
          IF priorityMatch # NoMatch
            THEN [Result("add", 1) EXCEPT
                    !.taskText = trim(Group(taskText, priorityMatch, 1, 1)),
                    !.priority = PriorityOf(toLowerCase(Group(taskText, priorityMatch, 4, 4)))]
            ELSE [Result("add", 1) EXCEPT !.taskText = taskText]))))

\* /^(?:tick|complete)\s+subtask\s+(.*?)$/
TickSubtaskPatterns ==
  <<<<Lit(<<"t","i","c","k">>), Spaces, Lit(<<"s","u","b","t","a","s","k">>), Spaces, Lazy>>,
    <<Lit(<<"c","o","m","p","l","e","t","e">>), Spaces, Lit(<<"s","u","b","t","a","s","k">>), Spaces, Lazy>>>>

\* the result of a command of a verb and a search text, with its "all " form
SearchCommand(type, withoutCommand) ==
  IF startsWith(withoutCommand, <<"a","l","l"," ">>)
    THEN [Result(type, 1) EXCEPT
            !.searchTerm = trim(substring(withoutCommand, 4)),
            !.allMatches = TRUE]
    ELSE [Result(type, 1) EXCEPT !.searchTerm = withoutCommand]

\* the branch of "tick " and "complete ", which always returns
ParseTick(text) ==
  With(FirstMatch(TickSubtaskPatterns, text, 1), LAMBDA subtaskMatch :
    IF includes(text, <<"s","u","b","t","a","s","k"," ">>) /\ subtaskMatch.n # 0
      THEN [Result("subtask", 1) EXCEPT
              !.subtaskText = trim(Group(text, subtaskMatch.m, 5, 5))]
      ELSE SearchCommand("tick",
             IF startsWith(text, <<"t","i","c","k"," ">>) THEN trim(substring(text, 5))
                                          ELSE trim(substring(text, 9))))

\* the branch of "delete " and "remove ", which always returns
ParseDelete(text) == SearchCommand("delete", trim(substring(text, 7)))

\* the branch of "archive ", which always returns
ParseArchive(text) ==
  With(trim(substring(text, 8)), LAMBDA withoutCommand :
    IF ~startsWith(withoutCommand, <<"a","l","l"," ">>) /\ withoutCommand = <<"c","o","m","p","l","e","t","e","d">>
      THEN [Result("archive", 1) EXCEPT
              !.searchTerm = <<"c","o","m","p","l","e","t","e","d">>, !.allMatches = TRUE]
      ELSE SearchCommand("archive", withoutCommand))

\* /^tag\s+(.*?)\s+as\s+(\w+)$/
TagPattern == <<Lit(<<"t","a","g">>), Spaces, Lazy, Spaces, Lit(<<"a","s">>), Spaces, Word>>

\* the branch of "tag ": a result, or Unknown to fall through
ParseTag(text) ==
  With(Match(TagPattern, text), LAMBDA match :
    IF match = NoMatch THEN Unknown
    ELSE [Result("tag", 1) EXCEPT
            !.searchTerm = trim(Group(text, match, 3, 3)),
            !.tag = toLowerCase(Group(text, match, 7, 7))])

\* /^(?:filter|show)(?:\s+by)?\s+(\w+)(?:\s+tasks)?$/: for each verb, the
\* optional groups in the order the matcher tries them
FilterPatterns ==
  LET verbs == <<Lit(<<"f","i","l","t","e","r">>), Lit(<<"s","h","o","w">>)>>
      by == <<Spaces, Lit(<<"b","y">>)>>
      tasksWord == <<Spaces, Lit(<<"t","a","s","k","s">>)>>
  IN [n \in 1..8 |->
        <<verbs[((n - 1) \div 4) + 1]>>
        \o (IF ((n - 1) \div 2) % 2 = 0 THEN by ELSE <<>>)
        \o <<Spaces, Word>>
        \o (IF (n - 1) % 2 = 0 THEN tasksWord ELSE <<>>)]

\* the branch of "filter " and "show ": a result, or Unknown to fall through
ParseFilter(text) ==
  With(FirstMatch(FilterPatterns, text, 1), LAMBDA filterMatch :
    LET tagAtom == IF ((filterMatch.n - 1) \div 2) % 2 = 0 THEN 5 ELSE 3
    IN IF filterMatch.n = 0 THEN Unknown
       ELSE [Result("filter", 1) EXCEPT
               !.tag = toLowerCase(Group(text, filterMatch.m, tagAtom, tagAtom))])

\* /^priority\s+(.*?)\s+(high|medium|low)$/
PriorityPatterns ==
  [n \in 1..3 |->
     <<Lit(<<"p","r","i","o","r","i","t","y">>), Spaces, Lazy, Spaces,
       Lit(<<<<"h","i","g","h">>, <<"m","e","d","i","u","m">>, <<"l","o","w">>>>[n])>>]

\* the branch of "priority ": a result, or Unknown to fall through
ParsePriority(text) ==
  With(FirstMatch(PriorityPatterns, text, 1), LAMBDA match :
    IF match.n = 0 THEN Unknown
    ELSE [Result("priority", 1) EXCEPT
            !.searchTerm = trim(Group(text, match.m, 3, 3)),
            !.priority = <<"high", "medium", "low">>[match.n]])

\* /^due\s+(\S+(?:\s+\S+)?)\s+(.+)$/: with the optional second word of the
\* date, then without it
DuePatterns ==
  <<<<Lit(<<"d","u","e">>), Spaces, Solid, Spaces, Solid, Spaces, Rest>>,
    <<Lit(<<"d","u","e">>), Spaces, Solid, Spaces, Rest>>>>

\* const days = ['sunday', ..., 'saturday']
DayNames ==
  <<<<"s","u","n","d","a","y">>, <<"m","o","n","d","a","y">>, <<"t","u","e","s","d","a","y">>, <<"w","e","d","n","e","s","d","a","y">>, <<"t","h","u","r","s","d","a","y">>,
    <<"f","r","i","d","a","y">>, <<"s","a","t","u","r","d","a","y">>>>

\* days.indexOf(dayOfWeek)
DayIndex(dayOfWeek) ==
  IF \E i \in 1..7 : DayNames[i] = dayOfWeek
    THEN (CHOOSE i \in 1..7 : DayNames[i] = dayOfWeek) - 1
    ELSE -1

\* new Date(year, month, date + days, 23, 59, 59).getTime() at time clock
EndOfDay(clock, days) == (DayOf(clock) + days) * DaySec + (DaySec - 1)

\* the mutant: a target that is today's weekday stays today
DaysToAddSameDay(targetDay, currentDay) ==
  IF targetDay - currentDay < 0 THEN targetDay - currentDay + 7
                                ELSE targetDay - currentDay

\* let daysToAdd = targetDay - currentDay; if (daysToAdd <= 0) daysToAdd += 7
DaysToAdd(targetDay, currentDay) ==
  IF targetDay - currentDay <= 0 THEN targetDay - currentDay + 7
                                 ELSE targetDay - currentDay

\* the due date of a date spec at time clock, or Undefined
DueDateOf(dueSpec, clock) ==
  IF dueSpec = <<"t","o","d","a","y">> THEN EndOfDay(clock, 0)
  ELSE IF dueSpec = <<"t","o","m","o","r","r","o","w">> THEN EndOfDay(clock, 1)
  ELSE IF startsWith(dueSpec, <<"n","e","x","t"," ">>) /\ DayIndex(substring(dueSpec, 5)) # -1
    THEN EndOfDay(clock, DaysToAdd(DayIndex(substring(dueSpec, 5)), getDay(clock)))
  ELSE Undefined

\* the branch of "due ": a result, or Unknown to fall through
ParseDue(text, clock) ==
  With(FirstMatch(DuePatterns, text, 1), LAMBDA match :
    IF match.n = 0 THEN Unknown
    ELSE With(toLowerCase(Group(text, match.m, 3, IF match.n = 1 THEN 5 ELSE 3)), LAMBDA dueSpec :
           [Result("due", 1) EXCEPT
              !.searchTerm = trim(Group(text, match.m, Len(match.m), Len(match.m))),
              !.dueSpec = dueSpec,
              !.dueDate = DueDateOf(dueSpec, clock)]))

\* /^snooze\s+(.*?)\s+(\d+)\s+(days?|weeks?|months?)$/
SnoozeUnitWords == <<<<"d","a","y","s">>, <<"d","a","y">>, <<"w","e","e","k","s">>, <<"w","e","e","k">>, <<"m","o","n","t","h","s">>, <<"m","o","n","t","h">>>>

SnoozePatterns ==
  [n \in 1..6 |->
     <<Lit(<<"s","n","o","o","z","e">>), Spaces, Lazy, Spaces, Rep("d", 1, Many, TRUE), Spaces,
       Lit(SnoozeUnitWords[n])>>]

\* the branch of "snooze ": a result, or Unknown to fall through
ParseSnooze(text) ==
  With(FirstMatch(SnoozePatterns, text, 1), LAMBDA match :
    IF match.n = 0 THEN Unknown
    ELSE [Result("snooze", 1) EXCEPT
            !.searchTerm = trim(Group(text, match.m, 3, 3)),
            !.snoozeAmount = parseInt(Group(text, match.m, 5, 5)),
            !.snoozeUnit = <<"days", "days", "weeks", "weeks", "months", "months">>[match.n]])

\* /^repeat\s+daily\s+(.+)$/ and /^repeat\s+monthly\s+(.+)$/
RepeatPattern(word) == <<Lit(<<"r","e","p","e","a","t">>), Spaces, Lit(word), Spaces, Rest>>

\* /^repeat\s+weekly\s+on\s+(monday|...|sunday)\s+(.+)$/
RepeatWeeklyPatterns ==
  [n \in 1..7 |->
     <<Lit(<<"r","e","p","e","a","t">>), Spaces, Lit(<<"w","e","e","k","l","y">>), Spaces, Lit(<<"o","n">>), Spaces,
       Lit(DayNames[n]), Spaces, Rest>>]

\* the branch of "repeat ": a result, or Unknown to fall through
ParseRepeat(text) ==
  With(Match(RepeatPattern(<<"d","a","i","l","y">>), text), LAMBDA dailyMatch :
    IF dailyMatch # NoMatch
      THEN [Result("repeat", 1) EXCEPT
              !.searchTerm = trim(Group(text, dailyMatch, 5, 5)),
              !.recurringType = "daily", !.recurringInterval = 1]
    ELSE With(FirstMatch(RepeatWeeklyPatterns, text, 1), LAMBDA weeklyMatch :
      IF weeklyMatch.n # 0
        THEN [Result("repeat", 1) EXCEPT
                !.searchTerm = trim(Group(text, weeklyMatch.m, 9, 9)),
                !.recurringType = "weekly", !.recurringInterval = 1,
                !.recurringDays = <<weeklyMatch.n - 1>>]
      ELSE With(Match(RepeatPattern(<<"m","o","n","t","h","l","y">>), text), LAMBDA monthlyMatch :
        IF monthlyMatch # NoMatch
          THEN [Result("repeat", 1) EXCEPT
                  !.searchTerm = trim(Group(text, monthlyMatch, 5, 5)),
                  !.recurringType = "monthly", !.recurringInterval = 1]
          ELSE Unknown)))

\* /^remind\s+me\s+(?:about\s+)?(.*?)\s+(today|tomorrow)\s+
\*  (\d{1,2}(?::\d{2})?\s*(?:am|pm)?)$/: with and without "about", for each
\* day word, with and without the minutes, with am, pm or neither
RemindAbsolutePatterns ==
  LET about == <<Lit(<<"a","b","o","u","t">>), Spaces>>
      dayWords == <<<<"t","o","d","a","y">>, <<"t","o","m","o","r","r","o","w">>>>
      minutes == <<Lit(<<":">>), Rep("d", 2, 2, TRUE)>>
      halves == <<<<Lit(<<"a","m">>)>>, <<Lit(<<"p","m">>)>>, <<>>>>
  IN [n \in 1..24 |->
        <<Lit(<<"r","e","m","i","n","d">>), Spaces, Lit(<<"m","e">>), Spaces>>
        \o (IF (n - 1) \div 12 = 0 THEN about ELSE <<>>)
        \o <<Lazy, Spaces, Lit(dayWords[(((n - 1) \div 6) % 2) + 1]), Spaces,
             Rep("d", 1, 2, TRUE)>>
        \o (IF ((n - 1) \div 3) % 2 = 0 THEN minutes ELSE <<>>)
        \o <<Rep("s", 0, Many, TRUE)>>
        \o halves[((n - 1) % 3) + 1]]

\* /^remind\s+me\s+(\d+)\s+hours?\s+before\s+(.+)$/
RemindRelativePatterns ==
  [n \in 1..2 |->
     <<Lit(<<"r","e","m","i","n","d">>), Spaces, Lit(<<"m","e">>), Spaces, Rep("d", 1, Many, TRUE), Spaces,
       Lit(<<<<"h","o","u","r","s">>, <<"h","o","u","r">>>>[n]), Spaces, Lit(<<"b","e","f","o","r","e">>), Spaces, Rest>>]

\* hours after the am/pm adjustment
AdjustHours(hours, isAM, isPM) ==
  IF isPM /\ hours < 12 THEN hours + 12
  ELSE IF isAM /\ hours = 12 THEN 0
  ELSE hours

\* reminderDate.setHours(hours, minutes, 0, 0) on today's or tomorrow's date
ReminderTimeOf(clock, tomorrow, hours, minutes) ==
  (DayOf(clock) + (IF tomorrow THEN 1 ELSE 0)) * DaySec + hours * 3600 + minutes * 60

\* the branch of "remind ": a result, or Unknown to fall through
ParseRemind(text, clock) ==
  With(FirstMatch(RemindAbsolutePatterns, text, 1), LAMBDA absoluteMatch :
    LET n == absoluteMatch.n
        m == absoluteMatch.m
        lazy == IF (n - 1) \div 12 = 0 THEN 7 ELSE 5
        withMinutes == ((n - 1) \div 3) % 2 = 0
        half == ((n - 1) % 3) + 1
        hours == parseInt(Group(text, m, lazy + 4, lazy + 4))
        minutes == IF withMinutes THEN parseInt(Group(text, m, lazy + 6, lazy + 6)) ELSE 0
        tomorrow == ((n - 1) \div 6) % 2 = 1
    IN IF n # 0
         THEN [Result("remind", 1) EXCEPT
                 !.searchTerm = trim(Group(text, m, lazy, lazy)),
                 !.reminderSpec = toLowerCase(Group(text, m, lazy + 2, lazy + 2)) \o <<" ">>
                                    \o toLowerCase(Group(text, m, lazy + 4, Len(m))),
                 !.reminderTime = ReminderTimeOf(clock, tomorrow,
                                    AdjustHours(hours, half = 1, half = 2), minutes)]
       ELSE With(FirstMatch(RemindRelativePatterns, text, 1), LAMBDA relativeMatch :
         IF relativeMatch.n # 0
           THEN [Result("remind", 1) EXCEPT
                   !.searchTerm = trim(Group(text, relativeMatch.m, 11, 11)),
                   !.reminderRelativeHours = parseInt(Group(text, relativeMatch.m, 5, 5)),
                   !.reminderSpec = String(parseInt(Group(text, relativeMatch.m, 5, 5))) \o <<" ","h","o","u","r","s"," ","b","e","f","o","r","e">>]
           ELSE Unknown))

\* the branch of "sort by ": a result, or Unknown to fall through
ParseSort(text) ==
  With(toLowerCase(trim(substring(text, 8))), LAMBDA sortCriteria :
    IF sortCriteria = <<"p","r","i","o","r","i","t","y">>
      THEN [Result("sort", 1) EXCEPT !.sortCriteria = "priority"]
    ELSE IF sortCriteria = <<"d","u","e"," ","d","a","t","e">>
      THEN [Result("sort", 1) EXCEPT !.sortCriteria = "dueDate"]
    ELSE IF sortCriteria \in {<<"c","r","e","a","t","e","d">>, <<"c","r","e","a","t","e","d"," ","d","a","t","e">>}
      THEN [Result("sort", 1) EXCEPT !.sortCriteria = "createdAt"]
    ELSE IF sortCriteria \in {<<"a","l","p","h","a","b","e","t","i","c","a","l">>, <<"n","a","m","e">>}
      THEN [Result("sort", 1) EXCEPT !.sortCriteria = "alphabetical"]
    ELSE Unknown)

\* the branch of "summarize ": a result, or Unknown to fall through
ParseSummarize(text) ==
  With(toLowerCase(trim(substring(text, 10))), LAMBDA period :
    IF period \in {<<"t","o","d","a","y">>, <<"t","h","i","s"," ","w","e","e","k">>, <<"t","o","m","o","r","r","o","w">>}
      THEN [Result("summarize", 1) EXCEPT !.dueSpec = period]
      ELSE Unknown)

\* the rules of parseCommandRuleBased in their order; a rule that always
\* returns ends the list
RuleResults(text, clock) ==
  <<IF text \in {<<"h","e","l","p">>, <<"c","o","m","m","a","n","d","s">>} THEN Result("help", 1) ELSE Unknown,
    IF startsWith(text, <<"a","d","d"," ">>) THEN ParseAdd(text) ELSE Unknown,
    IF startsWith(text, <<"t","i","c","k"," ">>) \/ startsWith(text, <<"c","o","m","p","l","e","t","e"," ">>)
      THEN ParseTick(text) ELSE Unknown,
    IF startsWith(text, <<"d","e","l","e","t","e"," ">>) \/ startsWith(text, <<"r","e","m","o","v","e"," ">>)
      THEN ParseDelete(text) ELSE Unknown,
    IF startsWith(text, <<"a","r","c","h","i","v","e"," ">>) THEN ParseArchive(text) ELSE Unknown,
    IF startsWith(text, <<"t","a","g"," ">>) THEN ParseTag(text) ELSE Unknown,
    IF startsWith(text, <<"f","i","l","t","e","r"," ">>) \/ startsWith(text, <<"s","h","o","w"," ">>)
      THEN ParseFilter(text) ELSE Unknown,
    IF startsWith(text, <<"p","r","i","o","r","i","t","y"," ">>) THEN ParsePriority(text) ELSE Unknown,
    IF startsWith(text, <<"d","u","e"," ">>) THEN ParseDue(text, clock) ELSE Unknown,
    IF startsWith(text, <<"s","n","o","o","z","e"," ">>) THEN ParseSnooze(text) ELSE Unknown,
    IF startsWith(text, <<"r","e","p","e","a","t"," ">>) THEN ParseRepeat(text) ELSE Unknown,
    IF startsWith(text, <<"r","e","m","i","n","d"," ">>) THEN ParseRemind(text, clock) ELSE Unknown,
    IF startsWith(text, <<"c","r","e","a","t","e"," ","p","r","o","j","e","c","t"," ">>) /\ trim(substring(text, 15)) # <<>>
      THEN [Result("project", 1) EXCEPT !.projectName = trim(substring(text, 15))]
      ELSE Unknown,
    IF text = <<"l","i","s","t"," ","p","r","o","j","e","c","t","s">> THEN Result("project", 1) ELSE Unknown,
    IF startsWith(text, <<"s","o","r","t"," ","b","y"," ">>) THEN ParseSort(text) ELSE Unknown,
    IF text \in {<<"c","a","l","e","n","d","a","r">>, <<"v","i","e","w"," ","c","a","l","e","n","d","a","r">>, <<"s","h","o","w"," ","c","a","l","e","n","d","a","r">>, <<"t","o","g","g","l","e"," ","c","a","l","e","n","d","a","r">>}
      THEN Result("calendar", 1) ELSE Unknown,
    IF text = <<"d","a","r","k"," ","m","o","d","e">> THEN Result("dark", 1)
      ELSE IF text = <<"l","i","g","h","t"," ","m","o","d","e">> THEN Result("light", 1) ELSE Unknown,
    IF startsWith(text, <<"s","u","m","m","a","r","i","z","e"," ">>) THEN ParseSummarize(text) ELSE Unknown>>

\* parseCommandRuleBased: the result of the first rule that returns, or
\* { type: 'unknown', confidence: 0 }
parseCommandRuleBased(text, clock) ==
  With(RuleResults(text, clock), LAMBDA results :
    With({n \in 1..Len(results) : results[n] # Unknown}, LAMBDA returned :
      IF returned = {} THEN Unknown
      ELSE results[CHOOSE n \in returned : \A k \in returned : n <= k]))

\* parseCommand at time clock
parseCommand(inputText, clock) ==
  With(toLowerCase(trim(inputText)), LAMBDA text :
    With(parseCommandRuleBased(text, clock), LAMBDA ruleBasedResult :
      IF ruleBasedResult.type # "unknown" \/ text = <<>>
        THEN ruleBasedResult
        ELSE [Result("unknown", 0) EXCEPT !.taskText = text]))

----------------------------------------------------------------------------
(* clientSideParseTask: the local parser of the extraction pipeline.  Its
   patterns carry the i flag: they are matched on the lower-cased text and
   their groups are taken from the text itself. *)

\* /\b(delete|remove)\s+tags?\b/i
DeleteTagPattern ==
  <<Boundary, Alt(<<<<"d","e","l","e","t","e">>, <<"r","e","m","o","v","e">>>>), Spaces, Lit(<<"t","a","g">>),
    Alt(<<<<"s">>, <<>>>>), Boundary>>

\* the tags pushed by the loop over /#(\w+)/g, from position from on
RECURSIVE HashTags(_, _)
HashTags(text, from) ==
  With(Search(<<<<Lit(<<"#">>), Word>>>>, text, from), LAMBDA found :
    IF found.n = 0 THEN <<>>
    ELSE <<GroupAt(text, found, 2, 2)>> \o HashTags(text, MatchEnd(found)))

\* Array.prototype.includes
Contains(seq, x) == \E i \in 1..Len(seq) : seq[i] = x

\* tags after the forEach over the matches of /(?:tag|hashtag) is (\w+)/gi,
\* from position from on
RECURSIVE TagIsTags(_, _, _)
TagIsTags(text, from, tags) ==
  With(Search(<<<<Alt(<<<<"t","a","g">>, <<"h","a","s","h","t","a","g">>>>), Lit(<<" ","i","s"," ">>), Word>>>>,
              toLowerCase(text), from), LAMBDA found :
    IF found.n = 0 THEN tags
    ELSE With(trim(GroupAt(text, found, 3, 3)), LAMBDA tag :
           TagIsTags(text, MatchEnd(found),
                     IF Contains(tags, tag) THEN tags ELSE Append(tags, tag))))

\* the tags of the text
ExtractTags(text) ==
  IF Test(<<DeleteTagPattern>>, toLowerCase(text)) THEN <<>>
  ELSE TagIsTags(text, 1, HashTags(text, 1))

\* the priority of a priority word of the local parser
PriorityWordValue(priorityText) ==
  CASE priorityText \in {<<"h","i","g","h">>, <<"u","r","g","e","n","t">>, <<"i","m","p","o","r","t","a","n","t">>} -> "high"
    [] priorityText \in {<<"m","e","d","i","u","m">>, <<"n","o","r","m","a","l">>} -> "medium"
    [] priorityText = <<"l","o","w">> -> "low"
    [] OTHER -> "undefined"

\* the priority of the text: from /!(\w+)/i, or else /priority is (\w+)/i
ExtractPriority(text) ==
  With(Search(<<<<Lit(<<"!">>), Word>>>>, text, 1), LAMBDA priorityMatch :
    IF priorityMatch.n # 0
      THEN PriorityWordValue(toLowerCase(GroupAt(text, priorityMatch, 2, 2)))
    ELSE With(Search(<<<<Lit(<<"p","r","i","o","r","i","t","y"," ","i","s"," ">>), Word>>>>,
                     toLowerCase(text), 1), LAMBDA priorityIsMatch :
      IF priorityIsMatch.n # 0
        THEN PriorityWordValue(toLowerCase(GroupAt(text, priorityIsMatch, 2, 2)))
        ELSE "undefined"))

\* a clock time \d{1,2}(:\d{2})?\s*(am|pm) with and without minutes
ClockTimePatterns ==
  <<<<Boundary, Rep("d", 1, 2, TRUE), Lit(<<":">>), Rep("d", 2, 2, TRUE),
      Rep("s", 0, Many, TRUE), Alt(<<<<"a","m">>, <<"p","m">>>>), Boundary>>,
    <<Boundary, Rep("d", 1, 2, TRUE), Lit(<<>>), Rep("d", 0, 0, TRUE),
      Rep("s", 0, Many, TRUE), Alt(<<<<"a","m">>, <<"p","m">>>>), Boundary>>>>

\* chrono.parseDate(text) at time clock for the date phrases of the model:
\* "today" or "tomorrow" and a 12-hour clock time.  A phrase without a day
\* is today, a phrase without a time keeps the time of day of the clock,
\* and a text with neither has no date (null)
ChronoDate(text, clock) ==
  With(toLowerCase(text), LAMBDA lower :
    With(Search(<<<<Boundary, Alt(<<<<"t","o","d","a","y">>, <<"t","o","m","o","r","r","o","w">>>>), Boundary>>>>, lower, 1),
         LAMBDA day :
      With(Search(ClockTimePatterns, lower, 1), LAMBDA time :
        LET offset == IF day.n # 0 /\ GroupAt(lower, day, 2, 2) = <<"t","o","m","o","r","r","o","w">> THEN 1 ELSE 0
            hours == parseInt(GroupAt(lower, time, 2, 2))
            minutes == parseInt(GroupAt(lower, time, 4, 4))
            isPM == GroupAt(lower, time, 6, 6) = <<"p","m">>
            seconds == IF time.n = 0 THEN TimeOfDay(clock)
                       ELSE ((hours % 12) + (IF isPM THEN 12 ELSE 0)) * 3600 + minutes * 60
        IN IF day.n = 0 /\ time.n = 0 THEN Undefined
           ELSE (DayOf(clock) + offset) * DaySec + seconds)))

\* the three reminderPatterns
LazyText == Rep(".", 1, Many, FALSE)

ReminderIntro ==
  <<Boundary, Lit(<<"r","e","m","i","n","d">>), Alt(<<<<"e","r">>, <<>>>>), Spaces,
    Alt(<<<<"m","e">>, <<"u","s">>, <<>>>>), Spaces>>

ToOfAbout == <<<<"t","o">>, <<"o","f">>, <<"a","b","o","u","t">>>>

ReminderTimeFirst ==
  ReminderIntro \o <<LazyText, Spaces, Alt(ToOfAbout), Spaces, LazyText,
                     Rep("s", 0, Many, TRUE), End>>

ReminderTaskFirst ==
  ReminderIntro \o <<Alt(ToOfAbout), Spaces, LazyText, Spaces,
                     Alt(<<<<"a","t">>, <<"o","n">>, <<"i","n">>, <<"t","o","m","o","r","r","o","w">>, <<"n","e","x","t">>, <<"t","h","i","s">>>>),
                     Spaces, LazyText, Rep("s", 0, Many, TRUE), End>>

ReminderSimple ==
  ReminderIntro \o <<Alt(ToOfAbout \o <<<<>>>>), Spaces, LazyText,
                     Rep("s", 0, Many, TRUE), End>>

\* /\b(at|on|in|tomorrow|next|this|morning|evening|afternoon|night)\b/i
TimeReferencePattern ==
  <<Boundary,
    Alt(<<<<"a","t">>, <<"o","n">>, <<"i","n">>, <<"t","o","m","o","r","r","o","w">>, <<"n","e","x","t">>, <<"t","h","i","s">>, <<"m","o","r","n","i","n","g">>,
          <<"e","v","e","n","i","n","g">>, <<"a","f","t","e","r","n","o","o","n">>, <<"n","i","g","h","t">>>>),
    Boundary>>

\* /(.+?)\s+(at|on|in)\s+(.+?)(?:\s*$)/i
TaskTimeSplitPattern ==
  <<LazyText, Spaces, Alt(<<<<"a","t">>, <<"o","n">>, <<"i","n">>>>), Spaces, LazyText,
    Rep("s", 0, Many, TRUE), End>>

NotExtracted == [extracted |-> FALSE, date |-> Undefined, title |-> <<>>]

\* one turn of the loop over the reminderPatterns with a pattern of two
\* groups, the first read as the time and the second as the task
TwoGroupReminder(pattern, time, task, text, clock) ==
  With(Search(<<pattern>>, toLowerCase(text), 1), LAMBDA found :
    IF found.n = 0 THEN NotExtracted
    ELSE With(ChronoDate(trim(GroupAt(text, found, time, time)), clock), LAMBDA parsedDate :
           IF parsedDate # Undefined
             THEN [extracted |-> TRUE, date |-> parsedDate,
                   title |-> trim(GroupAt(text, found, task, task))]
             ELSE NotExtracted))

\* the turn of the loop with the pattern of one group
SimpleReminder(text, clock) ==
  With(Search(<<ReminderSimple>>, toLowerCase(text), 1), LAMBDA found :
    IF found.n = 0 THEN NotExtracted
    ELSE With(trim(GroupAt(text, found, 9, 9)), LAMBDA fullText :
      IF fullText = <<>> \/ ~Test(<<TimeReferencePattern>>, toLowerCase(fullText))
        THEN NotExtracted
      ELSE With(Search(<<TaskTimeSplitPattern>>, toLowerCase(fullText), 1), LAMBDA taskTimeSplit :
        IF taskTimeSplit.n = 0 THEN NotExtracted
        ELSE With(trim(GroupAt(fullText, taskTimeSplit, 1, 1)), LAMBDA potentialTask :
          With(trim(GroupAt(fullText, taskTimeSplit, 5, 5)), LAMBDA potentialTime :
            IF potentialTask = <<>> \/ potentialTime = <<>> THEN NotExtracted
            ELSE With(ChronoDate(potentialTime, clock), LAMBDA parsedTime :
              IF parsedTime # Undefined
                THEN [extracted |-> TRUE, date |-> parsedTime, title |-> potentialTask]
                ELSE NotExtracted))))))

\* the loop over the reminderPatterns: the first turn that breaks
ReminderExtraction(text, clock) ==
  With(TwoGroupReminder(ReminderTimeFirst, 7, 11, text, clock), LAMBDA first :
    IF first.extracted THEN first
    ELSE With(TwoGroupReminder(ReminderTaskFirst, 9, 13, text, clock), LAMBDA second :
      IF second.extracted THEN second
      ELSE SimpleReminder(text, clock)))

\* s.replace(pattern, '') for an i pattern: matched on the lower-cased text
RemoveFirstI(ps, s) ==
  With(Search(ps, toLowerCase(s), 1), LAMBDA found :
    IF found.n = 0 THEN s
    ELSE SubSeq(s, 1, found.at - 1) \o SubSeq(s, MatchEnd(found), Len(s)))

\* s.replace(pattern, '') for a gi pattern
RECURSIVE RemoveAllI(_, _, _)
RemoveAllI(ps, s, from) ==
  With(Search(ps, toLowerCase(s), from), LAMBDA found :
    IF found.n = 0 \/ MatchEnd(found) = found.at THEN SubSeq(s, from, Len(s))
    ELSE SubSeq(s, from, found.at - 1)
         \o With(MatchEnd(found), LAMBDA next : RemoveAllI(ps, s, next)))

\* /\bremind(?:er)?\s+(?:me|us)?\s+(?:to|of|about)?\s+/i
ReminderKeywords == ReminderIntro \o <<Alt(ToOfAbout \o <<<<>>>>), Spaces>>

MonthNames ==
  <<<<"j","a","n">>, <<"f","e","b">>, <<"m","a","r">>, <<"a","p","r">>, <<"m","a","y">>, <<"j","u","n">>, <<"j","u","l">>, <<"a","u","g">>, <<"s","e","p">>,
    <<"o","c","t">>, <<"n","o","v">>, <<"d","e","c">>>>

Ordinal == Alt(<<<<"s","t">>, <<"n","d">>, <<"r","d">>, <<"t","h">>, <<>>>>)

\* the datePatterns, each as the list of its forms with and without the
\* optional minutes (:\d{2})
DatePatterns ==
  <<<<<<Boundary, Alt(<<<<"t","o","d","a","y">>, <<"t","o","m","o","r","r","o","w">>, <<"y","e","s","t","e","r","d","a","y">>>>), Boundary>>>>,
    <<<<Boundary, Alt(<<<<"n","e","x","t">>, <<"t","h","i","s">>, <<"c","o","m","i","n","g">>, <<"l","a","s","t">>>>), Spaces,
        Alt(DayNames \o <<<<"w","e","e","k">>, <<"m","o","n","t","h">>, <<"y","e","a","r">>>>), Boundary>>>>,
    <<<<Boundary, Alt(<<<<"i","n">>, <<"a","f","t","e","r">>, <<"b","e","f","o","r","e">>, <<"a","r","o","u","n","d">>, <<"a","t">>>>), Spaces,
        Rep("d", 1, Many, TRUE), Spaces,
        Alt(<<<<"m","i","n","u","t","e","s">>, <<"m","i","n","u","t","e">>, <<"h","o","u","r","s">>, <<"h","o","u","r">>, <<"d","a","y","s">>, <<"d","a","y">>,
              <<"w","e","e","k","s">>, <<"w","e","e","k">>, <<"m","o","n","t","h","s">>, <<"m","o","n","t","h">>, <<"y","e","a","r","s">>, <<"y","e","a","r">>>>),
        Boundary>>>>,
    <<<<Boundary, Alt(<<<<"a","t">>, <<"o","n">>, <<"b","e","f","o","r","e">>, <<"a","f","t","e","r">>>>), Spaces,
        Rep("d", 1, 2, TRUE), Lit(<<":">>), Rep("d", 2, 2, TRUE),
        Rep("s", 0, Many, TRUE), Alt(<<<<"a","m">>, <<"p","m">>, <<>>>>), Boundary>>,
      <<Boundary, Alt(<<<<"a","t">>, <<"o","n">>, <<"b","e","f","o","r","e">>, <<"a","f","t","e","r">>>>), Spaces,
        Rep("d", 1, 2, TRUE),
        Rep("s", 0, Many, TRUE), Alt(<<<<"a","m">>, <<"p","m">>, <<>>>>), Boundary>>>>,
    ClockTimePatterns,
    <<<<Boundary, Alt(MonthNames), Rep("a", 0, Many, TRUE), Spaces,
        Rep("d", 1, 2, TRUE), Ordinal, Boundary>>>>,
    <<<<Boundary, Rep("d", 1, 2, TRUE), Ordinal, Spaces, Alt(MonthNames),
        Rep("a", 0, Many, TRUE), Boundary>>>>>>

\* the loop that removes the datePatterns n.. from the title
RECURSIVE RemoveDates(_, _)
RemoveDates(title, n) ==
  IF n > Len(DatePatterns) THEN title
  ELSE With(RemoveAllI(DatePatterns[n], title, 1), LAMBDA removed :
         RemoveDates(removed, n + 1))

\* title.replace(/\s+/g, ' ').trim()
CollapseSpaces(title) == trim(ReplaceAll(<<<<Spaces>>>>, title, <<" ">>))

\* the generic extraction of the title
GenericTitle(text) ==
  CollapseSpaces(RemoveDates(RemoveFirstI(<<ReminderKeywords>>, text), 1))

\* the title and the date before the default title
ExtractTitle(text, clock) ==
  With(ReminderExtraction(text, clock), LAMBDA reminder :
    IF reminder.extracted THEN reminder
    ELSE [extracted |-> FALSE, date |-> ChronoDate(text, clock),
          title |-> GenericTitle(text)])

\* /remind(er)?\s+(me|us)\s+(to|of|about)?/i
DefaultTitlePattern ==
  <<Lit(<<"r","e","m","i","n","d">>), Alt(<<<<"e","r">>, <<>>>>), Spaces, Alt(<<<<"m","e">>, <<"u","s">>>>), Spaces,
    Alt(ToOfAbout \o <<<<>>>>)>>

\* the title after "If the title is empty or just noise"
WithDefaultTitle(actualTaskTitle, text) ==
  IF \/ Len(actualTaskTitle) < 2
     \/ Match(<<Rep("p", 1, Many, TRUE)>>, actualTaskTitle) # NoMatch
    THEN With(trim(RemoveFirstI(<<DefaultTitlePattern>>, text)), LAMBDA potentialTitle :
           IF potentialTitle = <<>> THEN <<"T","a","s","k">> ELSE potentialTitle)
    ELSE actualTaskTitle

religiousTerms ==
  <<<<"n","a","m","a","z">>, <<"p","r","a","y","e","r">>, <<"s","a","l","a","h">>, <<"s","a","l","a","t">>, <<"j","u","m","m","a","h">>, <<"d","h","u","h","r">>, <<"a","s","r">>,
    <<"m","a","g","h","r","i","b">>, <<"i","s","h","a">>, <<"f","a","j","r">>>>

\* (.*?\bterm\b.*?)(?:\s*at\s*|\s*on\s*|\s*$) with the e-th alternative
TermPattern(term, e) ==
  <<Lazy, Boundary, Lit(term), Boundary, Lazy, Rep("s", 0, Many, TRUE)>>
  \o (CASE e = 1 -> <<Lit(<<"a","t">>), Rep("s", 0, Many, TRUE)>>
        [] e = 2 -> <<Lit(<<"o","n">>), Rep("s", 0, Many, TRUE)>>
        [] e = 3 -> <<End, Rep("s", 0, 0, TRUE)>>)

\* group 1 of the match of that pattern on the text, or the empty text: the
\* match with the shortest first lazy part, then the shortest second one,
\* then the first alternative
TermMatch(term, text) ==
  With({<<e, FirstMatchAt(<<TermPattern(term, e)>>, toLowerCase(text), 1, 1)>> : e \in 1..3},
       LAMBDA all :
    With({t \in all : t[2].n # 0}, LAMBDA good :
      IF good = {} THEN <<>>
      ELSE With(CHOOSE a \in good : \A b \in good :
                  \/ a[2].m[1] < b[2].m[1]
                  \/ a[2].m[1] = b[2].m[1] /\ a[2].m[5] < b[2].m[5]
                  \/ a[2].m[1] = b[2].m[1] /\ a[2].m[5] = b[2].m[5] /\ a[1] <= b[1],
                LAMBDA first : SubSeq(text, 1, first[2].m[5] - 1))))

\* charAt(0).toUpperCase() + slice(1)
Capitalize(s) == IF s = <<>> THEN <<>> ELSE <<ToUpperChar(s[1])>> \o Tail(s)

\* the loop "Special handling for religious terms" from term n on
RECURSIVE ReligiousTitle(_, _, _)
ReligiousTitle(actualTaskTitle, text, n) ==
  IF n > Len(religiousTerms) THEN actualTaskTitle
  ELSE IF ~includes(toLowerCase(text), religiousTerms[n])
    THEN ReligiousTitle(actualTaskTitle, text, n + 1)
  ELSE With(TermMatch(religiousTerms[n], text), LAMBDA matched :
         IF matched # <<>>
           THEN IF Search(<<ReminderKeywords>>, toLowerCase(trim(matched)), 1).at = 1
                  THEN Capitalize(religiousTerms[n])
                  ELSE trim(matched)
           ELSE ReligiousTitle(actualTaskTitle, text, n + 1))

\* a parsed task of the pipeline
ParsedTask(title, due, tags, priority) ==
  [title |-> title, due |-> due, tags |-> tags, priority |-> priority]

\* clientSideParseTask(text) at time clock (no statement of its try block
\* throws, so it never returns null)
clientSideParseTask(text, clock) ==
  With(ExtractTitle(text, clock), LAMBDA extraction :
    With(ReligiousTitle(WithDefaultTitle(extraction.title, text), text, 1), LAMBDA finalTitle :
      ParsedTask(Capitalize(finalTitle), extraction.date, ExtractTags(text),
                 ExtractPriority(text))))

----------------------------------------------------------------------------
(* The command line *)

\* the result before the parser has run
NoResult == Result("none", Undefined)

\* the view state of Home after construction
InitialView ==
  [showHelp |-> FALSE, filterTag |-> Absent, darkMode |-> FALSE,
   sortCriteria |-> "priority", showCalendarView |-> FALSE,
   showChatAssistant |-> FALSE]

InitUI ==
  /\ input = <<>>
  /\ result = NoResult
  /\ view = InitialView
  /\ isLoading = FALSE
  /\ llmCalls = <<>>

----------------------------------------------------------------------------
(* The texts and times of the command line of the model, and the parsers
   computed once on them *)

DueSomedayReport == <<"d","u","e"," ","s","o","m","e","d","a","y"," ","r","e","p","o","r","t">>
RemindMeAboutMilk == <<"r","e","m","i","n","d"," ","m","e"," ","a","b","o","u","t"," ","m","i","l","k"," ","t","o","m","o","r","r","o","w"," ","9","a","m">>
BuyBread == <<"B","u","y"," ","b","r","e","a","d">>

\* the texts the user types
SubmitInputs ==
  {DueSomedayReport, RemindMeAboutMilk, BuyBread, <<"d","u","e"," ","t","o","d","a","y"," ","m","i","l","k">>,
   <<"a","d","d"," ","t","e","a"," ","#","h","o","m","e">>, <<"t","i","c","k"," ","m","i","l","k">>, <<"d","a","r","k"," ","m","o","d","e">>}

SubmitTexts == {trim(text) : text \in SubmitInputs}

\* the model submits at the time of Init
SubmitClocks == {0}

\* a and b with a blank between them
Join(a, b) == a \o <<" ">> \o b

\* search texts of one and of two words
DueTexts == {<<"m","i","l","k">>, <<"b","u","y"," ","m","i","l","k">>, <<"r","e","p","o","r","t">>}

\* the priority words of an `add <text> !<word>` command
PriorityWords ==
  {<<"h","i","g","h">>, <<"u","r","g","e","n","t">>, <<"i","m","p","o","r","t","a","n","t">>, <<"m","e","d","i","u","m">>, <<"n","o","r","m","a","l">>, <<"l","o","w">>}

\* `due today <text>`, `due tomorrow <text>` and `due next <weekday> <text>`
DueInputs ==
  {Join(Join(<<"d","u","e">>, spec), text) :
     spec \in {<<"t","o","d","a","y">>, <<"t","o","m","o","r","r","o","w">>} \cup {Join(<<"n","e","x","t">>, DayNames[n]) : n \in 1..7},
     text \in DueTexts}

\* `add buy milk !<word>`
PriorityInputs == {Join(<<"a","d","d"," ","b","u","y"," ","m","i","l","k">>, <<"!">> \o word) : word \in PriorityWords}

\* inputs of the other forms of the command grammar
CommandInputs ==
  {<<"h","e","l","p">>,
   <<"c","o","m","m","a","n","d","s">>,
   <<"a","d","d"," ","b","u","y"," ","m","i","l","k">>,
   <<"a","d","d"," ","b","u","y"," ","m","i","l","k"," ","#","e","r","r","a",
    "n","d">>,
   <<"a","d","d"," ","b","u","y"," ","m","i","l","k"," ","a","s"," ","e","r",
    "r","a","n","d">>,
   <<"a","d","d"," ","s","u","b","t","a","s","k"," ","e","g","g","s"," ","t",
    "o"," ","b","u","y"," ","m","i","l","k">>,
   <<"a","d","d"," ","r","e","p","o","r","t"," ","t","o"," ","w","o","r","k",
    " ","p","r","o","j","e","c","t">>,
   <<"t","i","c","k"," ","m","i","l","k">>,
   <<"t","i","c","k"," ","a","l","l"," ","m","i","l","k">>,
   <<"c","o","m","p","l","e","t","e"," ","m","i","l","k">>,
   <<" "," ","T","i","c","k"," ","M","i","l","k"," ">>,
   <<"d","e","l","e","t","e"," ","m","i","l","k">>,
   <<"r","e","m","o","v","e"," ","a","l","l"," ","m","i","l","k">>,
   <<"a","r","c","h","i","v","e"," ","m","i","l","k">>,
   <<"a","r","c","h","i","v","e"," ","c","o","m","p","l","e","t","e","d">>,
   <<"t","a","g"," ","m","i","l","k"," ","a","s"," ","e","r","r","a","n",
    "d">>,
   <<"f","i","l","t","e","r"," ","w","o","r","k">>,
   <<"s","h","o","w"," ","w","o","r","k"," ","t","a","s","k","s">>,
   <<"p","r","i","o","r","i","t","y"," ","m","i","l","k"," ","h","i","g",
    "h">>,
   <<"s","n","o","o","z","e"," ","m","i","l","k"," ","2"," ","d","a","y",
    "s">>,
   <<"r","e","p","e","a","t"," ","d","a","i","l","y"," ","m","i","l","k">>,
   <<"r","e","p","e","a","t"," ","w","e","e","k","l","y"," ","o","n"," ","m",
    "o","n","d","a","y"," ","m","i","l","k">>,
   <<"r","e","p","e","a","t"," ","m","o","n","t","h","l","y"," ","m","i","l",
    "k">>,
   <<"r","e","m","i","n","d"," ","m","e"," ","a","b","o","u","t"," ","m","i",
    "l","k"," ","t","o","m","o","r","r","o","w"," ","9","a","m">>,
   <<"r","e","m","i","n","d"," ","m","e"," ","2"," ","h","o","u","r","s"," ",
    "b","e","f","o","r","e"," ","m","i","l","k">>,
   <<"c","r","e","a","t","e"," ","p","r","o","j","e","c","t"," ","h","o","m",
    "e">>,
   <<"l","i","s","t"," ","p","r","o","j","e","c","t","s">>,
   <<"s","o","r","t"," ","b","y"," ","p","r","i","o","r","i","t","y">>,
   <<"s","o","r","t"," ","b","y"," ","d","u","e"," ","d","a","t","e">>,
   <<"c","a","l","e","n","d","a","r">>,
   <<"v","i","e","w"," ","c","a","l","e","n","d","a","r">>,
   <<"s","h","o","w"," ","c","a","l","e","n","d","a","r">>,
   <<"t","o","g","g","l","e"," ","c","a","l","e","n","d","a","r">>,
   <<"d","a","r","k"," ","m","o","d","e">>,
   <<"l","i","g","h","t"," ","m","o","d","e">>,
   <<"s","u","m","m","a","r","i","z","e"," ","t","o","d","a","y">>}

\* inputs of the command grammar
GrammarInputs == CommandInputs \cup DueInputs \cup PriorityInputs

\* inputs that are no command of the grammar: plain task titles and
\* malformed commands
OtherInputs ==
  {<<"b","u","y"," ","m","i","l","k">>,
   <<" ","B","u","y"," ","M","i","l","k"," ">>,
   <<"t","a","g"," ","m","i","l","k">>,
   <<"p","r","i","o","r","i","t","y"," ","m","i","l","k"," ","u","r","g","e",
    "n","t">>,
   <<"d","u","e"," ","t","o","d","a","y">>,
   <<"d","u","e"," ","s","o","m","e","d","a","y"," ","r","e","p","o","r",
    "t">>,
   <<"s","n","o","o","z","e"," ","m","i","l","k">>,
   <<"r","e","m","i","n","d"," ","m","e"," ","l","a","t","e","r">>,
   <<"s","o","r","t"," ","b","y"," ","s","i","z","e">>,
   <<"s","u","m","m","a","r","i","z","e"," ","a","l","l">>,
   <<"h","e","l","p","m","e">>}

ParserInputs == GrammarInputs \cup OtherInputs

\* midnight, nine o'clock and the last second of every day of a week
ParserClocks ==
  {day * DaySec + time : day \in 0..6, time \in {0, 9 * 3600, DaySec - 1}}

\* the tasks of the bodies the remote extraction answers with; the second
\* has no title
RemoteTasks ==
  {ParsedTask(BuyBread, Undefined, <<<<"e","r","r","a","n","d">>>>, "undefined"),
   ParsedTask(<<>>, Undefined, <<>>, "undefined")}

\* the results of parseCommand on the texts and at the times of the model,
\* as triples
ParseTable ==
  {<<text, clock, parseCommand(text, clock)>> : text \in SubmitTexts, clock \in SubmitClocks}
  \cup {<<text, clock, parseCommand(text, clock)>> : text \in ParserInputs, clock \in ParserClocks}

\* parseCommand(text) at time clock
ParseCommandAt(text, clock) ==
  (CHOOSE entry \in ParseTable : entry[1] = text /\ entry[2] = clock)[3]

\* the texts the extraction is applied to: without a tag or priority
\* marker (the second and third hold a bare ! and a bare #, the fourth asks
\* to remove the tag), and with each of the markers
ExtractTexts ==
  {BuyMilk, <<"b","u","y"," ","m","i","l","k","!">>, <<"r","o","o","m"," ","#"," ","5">>, <<"r","e","m","o","v","e"," ","t","a","g"," ","m","i","l","k">>,
   <<"b","u","y"," ","m","i","l","k"," ","#","h","o","m","e">>, <<"c","a","l","l"," ","b","o","b"," ","!","h","i","g","h">>, <<"m","i","l","k"," ","t","a","g"," ","i","s"," ","h","o","m","e">>,
   <<"m","i","l","k"," ","h","a","s","h","t","a","g"," ","i","s"," ","h","o","m","e">>, <<"m","i","l","k"," ","p","r","i","o","r","i","t","y"," ","i","s"," ","l","o","w">>}

\* the results of clientSideParseTask, as triples
LocalParseTable ==
  {<<text, clock, clientSideParseTask(text, clock)>> :
     text \in SubmitTexts \cup ExtractTexts, clock \in SubmitClocks}

\* clientSideParseTask(text) at time clock
LocalParse(text, clock) ==
  (CHOOSE entry \in LocalParseTable : entry[1] = text /\ entry[2] = clock)[3]

\* /remind(er)?\s+(me|us)?\s+(to|of|about)?/i of processCommand
reminderPattern ==
  <<Lit(<<"r","e","m","i","n","d">>), Alt(<<<<"e","r">>, <<>>>>), Spaces,
    Alt(<<<<"m","e">>, <<"u","s">>, <<>>>>), Spaces, Alt(ToOfAbout \o <<<<>>>>)>>

\* commands of the kinds archive, snooze, subtask and project, each
\* recognized by the parser with confidence 1
DispatchInputs ==
  {<<"a","r","c","h","i","v","e"," ","c","o","m","p","l","e","t","e","d">>, <<"a","r","c","h","i","v","e"," ","m","i","l","k">>, <<"s","n","o","o","z","e"," ","m","i","l","k"," ","2"," ","d","a","y","s">>,
   <<"a","d","d"," ","s","u","b","t","a","s","k"," ","e","g","g","s"," ","t","o"," ","b","u","y"," ","m","i","l","k">>, <<"c","r","e","a","t","e"," ","p","r","o","j","e","c","t"," ","h","o","m","e">>}

\* the results of reminderPattern.test, as pairs
ReminderTable ==
  {<<text, Test(<<reminderPattern>>, toLowerCase(text))>> :
     text \in SubmitTexts \cup DispatchInputs}

\* reminderPattern.test(commandText.toLowerCase())
IsReminder(commandText) ==
  (CHOOSE entry \in ReminderTable : entry[1] = commandText)[2]

\* parsedTask.title.replace(/^remind(er)?\s+(me|us)?\s+(to|of|about)?/i, '')
\* .trim(), and "Reminder" when nothing is left
taskTitle(title) ==
  With(Search(<<reminderPattern>>, toLowerCase(title), 1), LAMBDA found :
    With(IF found.at = 1 THEN trim(SubSeq(title, MatchEnd(found), Len(title)))
                         ELSE trim(title), LAMBDA cleaned :
      IF cleaned = <<>> THEN <<"R","e","m","i","n","d","e","r">> ELSE cleaned))

\* the titles the extraction pipeline returns in the model
PipelineTitles ==
  {entry[3].title : entry \in LocalParseTable} \cup {task.title : task \in RemoteTasks}

\* the cleaned titles, as pairs
TitleTable == {<<title, taskTitle(title)>> : title \in PipelineTitles}

\* the title of the task of the reminder branch of processCommand
CleanTitle(title) == (CHOOSE entry \in TitleTable : entry[1] = title)[2]

----------------------------------------------------------------------------
(* parseTaskWithLLM: the extraction pipeline with the provider 'cohere' *)

\* what the promise of parseTaskWithLLM settles with
Resolved(task) == [rejected |-> FALSE, null |-> FALSE, task |-> task]

ResolvedNull ==
  [rejected |-> FALSE, null |-> TRUE, task |-> ParsedTask(<<>>, Undefined, <<>>, "undefined")]

Rejected ==
  [rejected |-> TRUE, null |-> FALSE, task |-> ParsedTask(<<>>, Undefined, <<>>, "undefined")]

\* the outcomes of the one fetch of parseWithCohereAPI: the abort of the
\* 15 s timer, a network error, a status that is not 2xx, a body that is
\* not JSON, a body with an error field, a body with commandDetected, and
\* a body with a task
FailureOutcomes == {"abort", "network error", "not ok", "unparsable", "error field"}

RemoteOutcomes == FailureOutcomes \cup {"command detected", "task"}

\* a catch block that throws again
CatchRethrows(text, clock) == Rejected

\* the catch block of parseWithCohereAPI
CatchFallsBack(text, clock) == Resolved(LocalParse(text, clock))

\* the value parseWithCohereAPI(text) settles with when its fetch has the
\* outcome, with data the task of the body (a body without title gives the
\* title "")
parseWithCohereAPI(text, outcome, data, clock) ==
  CASE outcome \in {"abort", "network error", "unparsable"} -> CatchFallsBack(text, clock)
    [] outcome \in {"not ok", "error field"} -> Resolved(LocalParse(text, clock))
    [] outcome = "command detected" -> ResolvedNull
    [] outcome = "task" -> Resolved(data)

\* a call of parseTaskWithLLM(text) that awaits its fetch; cont is the
\* handler that awaits the call
PipelineCall(text, cont) ==
  [text |-> text, cont |-> cont, fetches |-> 1, settled |-> FALSE,
   outcome |-> "none", at |-> Undefined, value |-> ResolvedNull]

\* the fetch of the call settles and parseWithCohereAPI runs to its return
fetchSettles(outcome, data) ==
  /\ llmCalls # <<>>
  /\ ~llmCalls[1].settled
  /\ llmCalls' = <<[llmCalls[1] EXCEPT
                      !.settled = TRUE, !.outcome = outcome, !.at = now,
                      !.value = parseWithCohereAPI(llmCalls[1].text, outcome, data, now)]>>
  /\ UNCHANGED <<tasks, nextId, feedbackMessage, now, lastCheckTime, notifications, effectPending,
                 pendingAdds, input, result, view, isLoading>>

----------------------------------------------------------------------------
(* The handlers of the command line: processCommand and handleInputSubmit *)

\* s || ''
OrEmpty(s) == IF s = Absent THEN <<>> ELSE s

handleRecurringTask(searchText, recurringType, interval, daysOfWeek) ==
  /\ tasks' = [i \in 1..Len(tasks) |->
                 IF TextMatches(tasks[i].text, searchText)
                   THEN [tasks[i] EXCEPT
                           !.recurring = <<Recurring(recurringType, interval, daysOfWeek, Undefined)>>]
                   ELSE tasks[i]]
  /\ effectPending' = TRUE
  /\ feedbackMessage' =
       LET modifiedCount == Cardinality({i \in 1..Len(tasks) : TextMatches(tasks[i].text, searchText)})
       IN IF modifiedCount > 0
            THEN Feedback("Set recurring schedule for task(s)", modifiedCount, <<>>)
            ELSE Feedback("No matching tasks found for", 0, searchText)
  /\ UNCHANGED <<nextId, now, lastCheckTime, notifications, pendingAdds>>

\* a handler that leaves the store and the feedback alone
StoreUnchanged == UNCHANGED <<tasks, nextId, feedbackMessage, effectPending, pendingAdds>>

\* the switch of processCommand on the result of the parser: the store, the
\* feedback and the view after it
Dispatch(r, commandText) ==
  CASE r.type = "add" ->
         /\ AddTaskEffect(OrEmpty(r.taskText),
                          AddArgs(r.tag, r.priority, Undefined, <<>>, FALSE, <<>>))
         /\ UNCHANGED view
    [] r.type = "tick" ->
         tickTasksByText(OrEmpty(r.searchTerm), r.allMatches) /\ UNCHANGED view
    [] r.type = "delete" ->
         deleteTasksByText(OrEmpty(r.searchTerm), r.allMatches) /\ UNCHANGED view
    [] r.type = "tag" ->
         IF TruthyText(r.searchTerm) /\ TruthyText(r.tag)
           THEN updateTaskTag(r.searchTerm, r.tag) /\ UNCHANGED view
           ELSE StoreUnchanged /\ UNCHANGED view
    [] r.type = "filter" ->
         /\ view' = [view EXCEPT !.filterTag = IF TruthyText(r.tag) THEN r.tag ELSE Absent]
         /\ StoreUnchanged
    [] r.type = "priority" ->
         IF TruthyText(r.searchTerm) /\ r.priority # "undefined"
           THEN updateTaskPriority(r.searchTerm, r.priority) /\ UNCHANGED view
           ELSE StoreUnchanged /\ UNCHANGED view
    [] r.type = "help" ->
         view' = [view EXCEPT !.showHelp = TRUE] /\ StoreUnchanged
    [] r.type = "due" ->
         IF TruthyText(r.searchTerm) /\ Truthy(r.dueDate)
           THEN handleDueDate(r.searchTerm, r.dueDate) /\ UNCHANGED view
           ELSE StoreUnchanged /\ UNCHANGED view
    [] r.type = "sort" ->
         IF r.sortCriteria # "undefined"
           THEN /\ view' = [view EXCEPT !.sortCriteria = r.sortCriteria]
                /\ feedbackMessage' = Feedback("Sorting tasks by", 0, <<>>)
                /\ UNCHANGED <<tasks, nextId, effectPending, pendingAdds>>
           ELSE StoreUnchanged /\ UNCHANGED view
    [] r.type = "dark" ->
         view' = [view EXCEPT !.darkMode = TRUE] /\ StoreUnchanged
    [] r.type = "light" ->
         view' = [view EXCEPT !.darkMode = FALSE] /\ StoreUnchanged
    [] r.type = "repeat" ->
         IF TruthyText(r.searchTerm) /\ r.recurringType # "undefined"
           THEN /\ handleRecurringTask(r.searchTerm, r.recurringType,
                                       IF Truthy(r.recurringInterval) THEN r.recurringInterval ELSE 1,
                                       r.recurringDays)
                /\ UNCHANGED view
           ELSE StoreUnchanged /\ UNCHANGED view
    [] r.type = "summarize" ->
         view' = [view EXCEPT !.showChatAssistant = TRUE] /\ StoreUnchanged
    [] r.type \in {"calendar", "view calendar"} ->
         /\ view' = [view EXCEPT !.showCalendarView = ~view.showCalendarView]
         /\ StoreUnchanged
    [] OTHER ->
         AddTaskEffect(commandText, NoArgs) /\ UNCHANGED view

\* the arguments of the addTask of the reminder branch; the reminder is
\* 5 minutes before the due date and takes the identifier id
ReminderArgs(parsedTask, id) ==
  AddArgs(Absent, parsedTask.priority,
          IF Truthy(parsedTask.due) THEN parsedTask.due ELSE Undefined,
          IF Truthy(parsedTask.due) /\ Truthy(parsedTask.due - 5 * 60)
            THEN <<[id |-> id, time |-> parsedTask.due - 5 * 60, notified |-> FALSE,
                    type |-> "absolute"]>>
            ELSE <<>>,
          TRUE, parsedTask.tags)

\* the arguments of the addTask of handleInputSubmit for a parsed task
ParsedArgs(parsed) ==
  AddArgs(Absent, parsed.priority,
          IF Truthy(parsed.due) THEN parsed.due ELSE Undefined,
          <<>>, TRUE, parsed.tags)

\* the user types a text into the command line, which is disabled while
\* isLoading
typeInput(text) ==
  /\ ~isLoading
  /\ input' = text
  /\ UNCHANGED <<tasks, nextId, feedbackMessage, now, lastCheckTime, notifications, effectPending,
                 pendingAdds, result, view, isLoading, llmCalls>>

\* processCommand(commandText) from `const result = parseCommand(commandText)`
\* to its end, and the setInput('') of handleInputSubmit after it.  The
\* branch for the type 'unknown' is not reached: handleInputSubmit, the only
\* caller, passes a text only when its type is not 'unknown'.
RuleDispatch(commandText) ==
  /\ result' = ParseCommandAt(commandText, now)
  /\ Dispatch(ParseCommandAt(commandText, now), commandText)
  /\ isLoading' = (Len(pendingAdds') > Len(pendingAdds))
  /\ input' = <<>>
  /\ UNCHANGED <<now, lastCheckTime, notifications>>

\* a handler calls parseTaskWithLLM(text) and awaits it
CallPipeline(text, cont) ==
  /\ llmCalls' = <<PipelineCall(text, cont)>>
  /\ isLoading' = TRUE
  /\ StoreUnchanged
  /\ UNCHANGED <<now, lastCheckTime, notifications, view>>

\* processCommand(commandText) up to its first await or to its end
processCommand(commandText) ==
  IF IsReminder(commandText)
    THEN /\ CallPipeline(commandText, "processCommand")
         /\ input' = commandText
         /\ result' = ParseCommandAt(commandText, now)
    ELSE RuleDispatch(commandText) /\ UNCHANGED llmCalls

\* handleInputSubmit(input) up to its first await or to its end; Enter
\* submits only while isLoading is false
handleInputSubmit ==
  LET trimmed == trim(input)
  IN /\ ~isLoading
     /\ trimmed # <<>>
     /\ Len(pendingAdds) < MaxPending
     /\ Len(tasks) < MaxTasks
     /\ nextId < MaxId
     /\ IF ParseCommandAt(trimmed, now).type # "unknown"
          THEN processCommand(trimmed)
          ELSE /\ CallPipeline(trimmed, "handleInputSubmit")
               /\ result' = ParseCommandAt(trimmed, now)
               /\ UNCHANGED input

\* the awaited parseTaskWithLLM settles and the handler that awaits it runs
\* to its end
pipelineReturns ==
  /\ llmCalls # <<>>
  /\ llmCalls[1].settled
  /\ llmCalls' = <<>>
  /\ LET call == llmCalls[1]
         value == call.value
     IN IF call.cont = "handleInputSubmit"
          THEN /\ IF value.rejected \/ value.null
                    THEN AddTaskEffect(call.text, NoArgs)
                    ELSE AddTaskEffect(value.task.title, ParsedArgs(value.task))
               /\ isLoading' = FALSE
               /\ input' = <<>>
               /\ UNCHANGED <<now, lastCheckTime, notifications, view, result>>
        ELSE IF ~value.rejected /\ ~value.null /\ value.task.title # <<>>
          THEN /\ AddTaskEffect(CleanTitle(value.task.title), ReminderArgs(value.task, nextId))
               /\ isLoading' = FALSE
               /\ input' = <<>>
               /\ UNCHANGED <<now, lastCheckTime, notifications, view, result>>
          ELSE RuleDispatch(call.text)

----------------------------------------------------------------------------
(* The command specification: a stored task list and the search commands *)

CmdTags == {<<"w","o","r","k">>}
CmdPriorities == {"high"}
CmdDueDates == {1 * DaySec + 23 * 3600 + 59 * 60 + 59}

\* a task as the store persisted it: pending, classified "general"
StoredTask(id, text) ==
  NewTask(id, text, <<"g","e","n","e","r","a","l">>, <<<<"g","e","n","e","r","a","l">>>>,
          "undefined", Undefined, <<>>, 0)

\* the task lists the mount effect loads from storage
LoadedStores ==
  UNION {{[i \in 1..n |-> StoredTask(i, f[i])] : f \in [1..n -> Titles]} : n \in 1..MaxTasks}

InitCmd ==
  /\ tasks \in LoadedStores
  /\ nextId = Len(tasks) + 1
  /\ feedbackMessage = NoFeedback
  /\ now = 0
  /\ lastCheckTime = 0
  /\ notifications = <<>>
  /\ effectPending = TRUE
  /\ pendingAdds = <<>>
  /\ InitUI

NextCmd ==
  \/ \E s \in SearchTexts, all \in BOOLEAN : tickTasksByText(s, all) /\ UNCHANGED uiVars
  \/ \E s \in SearchTexts, all \in BOOLEAN : deleteTasksByText(s, all) /\ UNCHANGED uiVars
  \/ \E s \in SearchTexts, t \in CmdTags : updateTaskTag(s, t) /\ UNCHANGED uiVars
  \/ \E s \in SearchTexts, p \in CmdPriorities : updateTaskPriority(s, p) /\ UNCHANGED uiVars
  \/ clearFeedback /\ UNCHANGED uiVars

SpecCmd == InitCmd /\ [][NextCmd]_vars

\* the commands that set a field of the tasks they find
NextUpd ==
  \/ \E s \in SearchTexts, t \in CmdTags : updateTaskTag(s, t) /\ UNCHANGED uiVars
  \/ \E s \in SearchTexts, p \in CmdPriorities : updateTaskPriority(s, p) /\ UNCHANGED uiVars
  \/ \E s \in SearchTexts, d \in CmdDueDates : handleDueDate(s, d) /\ UNCHANGED uiVars
  \/ clearFeedback /\ UNCHANGED uiVars

SpecUpd == InitCmd /\ [][NextUpd]_vars

----------------------------------------------------------------------------
(* Claims about the search commands, checked under SpecCmd and SpecUpd *)

Min(S) == CHOOSE x \in S : \A y \in S : x <= y

\* the first index of S, as a set of at most one index
FirstOf(S) == IF S = {} THEN {} ELSE {Min(S)}

\* ts without the tasks at the indices in drop, in the original order
WithoutIndices(ts, drop) ==
  LET keep == (1..Len(ts)) \ drop
      kth(k) == CHOOSE i \in keep : Cardinality({j \in keep : j <= i}) = k
  IN [k \in 1..Cardinality(keep) |-> ts[kth(k)]]

TitleHits(ts, s) == {i \in 1..Len(ts) : Matches(ts[i], s)}

TickTargets(ts, s, all) ==
  LET c == {i \in TitleHits(ts, s) : ~ts[i].done}
  IN IF all THEN c ELSE FirstOf(c)

\* C1: tickTasksByText(search, false) sets done on exactly the first task in
\* store order whose title contains the search text case-insensitively and
\* that is not yet done, and changes nothing else; with tickAll it sets done
\* on every such task.
C1_TickFirstMatch ==
  [][\A s \in SearchTexts, all \in BOOLEAN :
       tickTasksByText(s, all) =>
         tasks' = [i \in 1..Len(tasks) |->
                     IF i \in TickTargets(tasks, s, all)
                       THEN [tasks[i] EXCEPT !.done = TRUE] ELSE tasks[i]]]_vars

\* `tick milk` over [buy milk, Drink Milk, eat cereal] has completed only the first
C1_Witness ==
  /\ Len(tasks) = 3
  /\ feedbackMessage = Feedback("Completed task(s) matching", 1, SearchMilk)
  /\ tasks[1].text = BuyMilk /\ tasks[1].done
  /\ tasks[2].text = DrinkMilk /\ ~tasks[2].done
  /\ tasks[3].text = EatCereal /\ ~tasks[3].done

\* C2: deleteTasksByText(search, false) removes exactly the first task whose
\* title contains the search text and keeps all others, later matches
\* included, in their order; with deleteAll it removes every match and
\* nothing else.
C2_DeleteFirstMatch ==
  [][\A s \in SearchTexts, all \in BOOLEAN :
       deleteTasksByText(s, all) =>
         tasks' = WithoutIndices(tasks,
                     IF all THEN TitleHits(tasks, s) ELSE FirstOf(TitleHits(tasks, s)))]_vars

\* one of two milk tasks was deleted, the later one is still there
C2_Witness ==
  /\ Len(tasks) = 2
  /\ feedbackMessage = Feedback("Deleted task(s) matching", 1, SearchMilk)
  /\ tasks[1].id = 2 /\ tasks[1].text = DrinkMilk
  /\ tasks[2].id = 3 /\ tasks[2].text = EatCereal

\* a tag, priority or due-by-text command with search text s is taken
UpdateCommand(s) ==
  \/ \E t \in CmdTags : updateTaskTag(s, t)
  \/ \E p \in CmdPriorities : updateTaskPriority(s, p)
  \/ \E d \in CmdDueDates : handleDueDate(s, d)

\* C3 as stated: the tag, priority and due-by-text commands modify exactly the
\* first task whose title contains the search text; every other task, later
\* matches included, keeps its tag, priority and due date.
C3_FirstMatchOnly ==
  [][\A s \in SearchTexts :
       UpdateCommand(s) =>
         \A i \in 1..Len(tasks) :
            i \notin FirstOf(TitleHits(tasks, s)) => tasks'[i] = tasks[i]]_vars

\* C3 as amended: the tag, priority and due-by-text commands set the tag,
\* priority or due date of every task whose title contains the search text
\* case-insensitively, and leave every other task unchanged.
C3_EveryMatch ==
  [][\A s \in SearchTexts :
       /\ \A t \in CmdTags : updateTaskTag(s, t) =>
            tasks' = [i \in 1..Len(tasks) |->
                        IF i \in TitleHits(tasks, s)
                          THEN [tasks[i] EXCEPT !.tag = t] ELSE tasks[i]]
       /\ \A p \in CmdPriorities : updateTaskPriority(s, p) =>
            tasks' = [i \in 1..Len(tasks) |->
                        IF i \in TitleHits(tasks, s)
                          THEN [tasks[i] EXCEPT !.priority = p] ELSE tasks[i]]
       /\ \A d \in CmdDueDates : handleDueDate(s, d) =>
            tasks' = [i \in 1..Len(tasks) |->
                        IF i \in TitleHits(tasks, s)
                          THEN [tasks[i] EXCEPT !.dueDate = d] ELSE tasks[i]]]_vars

\* a tag command has changed both milk tasks and not the cereal task
C3_Witness ==
  /\ Len(tasks) = 3
  /\ feedbackMessage.msg = "Updated tag for task(s)" /\ feedbackMessage.n = 2
  /\ tasks[1].text = BuyMilk /\ tasks[1].tag \in CmdTags
  /\ tasks[2].text = DrinkMilk /\ tasks[2].tag \in CmdTags
  /\ tasks[3].text = EatCereal /\ tasks[3].tag \notin CmdTags

\* C4: when no task title contains the search text, a tick, delete, tag or
\* priority command leaves the task list as it is (same tasks, same fields,
\* same order) and shows a "No matching ... found" message.
C4_ZeroMatch ==
  [][\A s \in SearchTexts :
       (/\ TitleHits(tasks, s) = {}
        /\ \/ \E all \in BOOLEAN : tickTasksByText(s, all)
           \/ \E all \in BOOLEAN : deleteTasksByText(s, all)
           \/ \E t \in CmdTags : updateTaskTag(s, t)
           \/ \E p \in CmdPriorities : updateTaskPriority(s, p))
       => /\ tasks' = tasks
          /\ feedbackMessage'.msg \in {"No matching tasks found for",
                                       "No matching incomplete tasks found for"}]_vars

\* a tick found nothing although no task of the store is done
C4_Witness ==
  /\ Len(tasks) = 3
  /\ feedbackMessage.msg = "No matching incomplete tasks found for"
  /\ \A i \in 1..Len(tasks) : ~tasks[i].done

----------------------------------------------------------------------------
(* The recurrence specification: a stored recurring task and the watcher *)

\* largest interval of a stored recurrence rule
MaxInterval == 2

NineOClock == 9 * 3600

\* the due dates of the stored task: the days of the first week and 31 January
RecurDueDates == {d * DaySec + NineOClock : d \in (0..6) \cup {30}} \cup {Undefined}


WeekdaySets == {<<1>>, <<1, 3>>, <<3, 1>>, <<0>>, <<6>>, <<2, 4, 5>>}

\* an end date in the second week
RecurEndDate == 8 * DaySec

RecurringConfigs ==
  {Recurring("daily", k, <<>>, e) : k \in 1..MaxInterval, e \in {Undefined, RecurEndDate}}
  \cup {Recurring("weekly", k, w, Undefined) : k \in 1..MaxInterval, w \in WeekdaySets \cup {<<>>}}
  \cup {Recurring("monthly", k, <<>>, Undefined) : k \in 1..MaxInterval}
  \cup {Recurring("custom", 1, <<>>, Undefined)}

\* the stored recurring task: one done subtask, a notified relative reminder
\* an hour before it is due and an absolute reminder
StoredRecurring(dueDate, recurring) ==
  [StoredTask(1, BuyMilk) EXCEPT
     !.dueDate = dueDate,
     !.recurring = <<recurring>>,
     !.subtasks = <<[id |-> 2, text |-> EatCereal, done |-> TRUE]>>,
     !.reminders = <<[id |-> 3, time |-> dueDate - 3600, notified |-> TRUE, type |-> "relative"],
                     [id |-> 4, time |-> NineOClock, notified |-> FALSE, type |-> "absolute"]>>]

InitRecur ==
  /\ \E d \in RecurDueDates, r \in RecurringConfigs : tasks = <<StoredRecurring(d, r)>>
  /\ nextId = 5
  /\ feedbackMessage = NoFeedback
  /\ now = 0
  /\ lastCheckTime = 0
  /\ notifications = <<>>
  /\ effectPending = TRUE
  /\ pendingAdds = <<>>
  /\ InitUI

NextRecur ==
  \/ \E id \in 1..(nextId - 1) : toggleTask(id) /\ UNCHANGED uiVars
  \/ RecurrenceEffect /\ UNCHANGED uiVars

SpecRecur == InitRecur /\ [][NextRecur]_vars

----------------------------------------------------------------------------
(* Claims about the recurrence watcher, checked under SpecRecur *)

\* the indices of the tasks the step appended
Appended == (Len(tasks) + 1)..Len(tasks')

\* task t is done and carries a rule of the given type and a due date
DoneRecurring(t, type) ==
  /\ Len(t.recurring) > 0
  /\ t.recurring[1].type = type
  /\ t.done
  /\ Truthy(t.dueDate)

\* C5: regeneration changes no field of the completed task it regenerates
\* from, nor of any other task: the store afterwards is the store before
\* plus appended tasks, and the id of each appended task differs from every
\* other id of the store.
C5_RegenerationAppends ==
  [][RecurrenceEffect =>
       /\ Len(tasks') >= Len(tasks)
       /\ SubSeq(tasks', 1, Len(tasks)) = tasks
       /\ \A j \in Appended : \A i \in 1..Len(tasks') :
            i # j => tasks'[j].id # tasks'[i].id]_vars

\* the store holds a completed recurring task and the instance made from it
C5_Witness ==
  /\ Len(tasks) = 2
  /\ Len(tasks[1].recurring) > 0 /\ tasks[1].done /\ tasks[1].id = 1
  /\ tasks[2].text = tasks[1].text /\ tasks[2].id # 1 /\ ~tasks[2].done
  /\ tasks[2].dueDate > tasks[1].dueDate

\* C6: for a done task with a daily rule of interval k, due on day N (and no
\* end date before day N + k), regeneration appends a task that is not done,
\* is pending, is due on day N + k at the same time of day, and has every
\* subtask reset to not done.
C6_DailyRegeneration ==
  [][RecurrenceEffect =>
       \A i \in 1..Len(tasks) :
          LET t == tasks[i]
              k == t.recurring[1].interval
              endDate == t.recurring[1].endDate
          IN (/\ DoneRecurring(t, "daily")
              /\ ~(Truthy(endDate) /\ t.dueDate + k * DaySec > endDate))
             => \E j \in Appended :
                  /\ tasks'[j].text = t.text
                  /\ ~tasks'[j].done
                  /\ tasks'[j].status = "pending"
                  /\ DayOf(tasks'[j].dueDate) = DayOf(t.dueDate) + k
                  /\ TimeOfDay(tasks'[j].dueDate) = TimeOfDay(t.dueDate)
                  /\ Len(tasks'[j].subtasks) = Len(t.subtasks)
                  /\ \A n \in 1..Len(t.subtasks) : ~tasks'[j].subtasks[n].done]_vars

\* a daily task of interval 2 whose subtask was done has been regenerated
C6_Witness ==
  /\ Len(tasks) >= 2
  /\ DoneRecurring(tasks[1], "daily")
  /\ tasks[1].recurring[1].interval = 2
  /\ tasks[1].subtasks[1].done
  /\ ~tasks[2].done
  /\ DayOf(tasks[2].dueDate) = DayOf(tasks[1].dueDate) + 2
  /\ ~tasks[2].subtasks[1].done

\* the weekday the claim snaps to: the smallest day of the set that is at or
\* after the weekday of the advanced date, else the smallest day of the set
\* in the following week
SnapAtOrAfter(advanced, daysOfWeek) ==
  LET cur == getDay(advanced)
      days == {daysOfWeek[n] : n \in 1..Len(daysOfWeek)}
      atOrAfter == {d \in days : d >= cur}
  IN IF atOrAfter # {} THEN AddDays(advanced, Min(atOrAfter) - cur)
     ELSE AddDays(advanced, 7 - cur + Min(days))

\* C7: for a weekly rule with a non-empty daysOfWeek the next due date is the
\* due date advanced by 7 x interval days and then moved to the smallest
\* weekday of the set at or after the advanced date's weekday (no extra days
\* when that weekday is in the set), else to the smallest weekday of the set
\* in the following week; a Monday task with daysOfWeek = [1] and interval 1
\* regenerates 7 days later.
C7_WeeklySnap ==
  [][RecurrenceEffect =>
       \A i \in 1..Len(tasks) :
          LET t == tasks[i]
              r == t.recurring[1]
          IN (DoneRecurring(t, "weekly") /\ Len(r.daysOfWeek) > 0)
             => \E j \in Appended :
                  /\ tasks'[j].text = t.text
                  /\ tasks'[j].dueDate =
                       SnapAtOrAfter(AddDays(t.dueDate, 7 * r.interval), r.daysOfWeek)]_vars

\* C8: a weekly task with daysOfWeek = [1, 3] that is due on a Wednesday
\* regenerates with a due date on the first Monday after that Wednesday,
\* five days later (interval 1).
C8_WednesdayToMonday ==
  [][RecurrenceEffect =>
       \A i \in 1..Len(tasks) :
          LET t == tasks[i]
              r == t.recurring[1]
          IN (/\ DoneRecurring(t, "weekly")
              /\ r.interval = 1
              /\ r.daysOfWeek = <<1, 3>>
              /\ getDay(t.dueDate) = 3)
             => \E j \in Appended :
                  /\ tasks'[j].text = t.text
                  /\ DayOf(tasks'[j].dueDate) = DayOf(t.dueDate) + 5]_vars

----------------------------------------------------------------------------
(* The specification of the store under all its writers *)

ClassifierLabels == {<<"e","r","r","a","n","d">>}

\* the stored task: due tomorrow, repeated daily, with a reminder that
\* falls due one debounce gap after the page is opened
StoredReminderTask ==
  [StoredTask(1, BuyMilk) EXCEPT
     !.dueDate = DaySec + NineOClock,
     !.recurring = <<Recurring("daily", 1, <<>>, Undefined)>>,
     !.reminders = <<[id |-> 2, time |-> DebounceSec, notified |-> FALSE, type |-> "absolute"]>>]

Init ==
  /\ tasks = <<StoredReminderTask>>
  /\ nextId = 3
  /\ feedbackMessage = NoFeedback
  /\ now = 0
  /\ lastCheckTime = now
  /\ notifications = <<>>
  /\ effectPending = TRUE
  /\ pendingAdds = <<>>
  /\ InitUI

Next ==
  \/ \E text \in {DrinkMilk} : addTaskStart(text)
  \/ \E k \in 1..MaxPending, label \in ClassifierLabels : addTaskResolve(k, label)
  \/ \E k \in 1..MaxPending : addTaskReject(k)
  \/ \E id \in 1..(nextId - 1) : toggleTask(id) /\ UNCHANGED uiVars
  \/ \E all \in BOOLEAN : tickTasksByText(SearchMilk, all) /\ UNCHANGED uiVars
  \/ RecurrenceEffect /\ UNCHANGED uiVars
  \/ checkReminders /\ UNCHANGED uiVars
  \/ Tick(DebounceSec) /\ UNCHANGED uiVars
  \/ clearFeedback /\ UNCHANGED uiVars

Spec == Init /\ [][Next]_vars

\* the controls that set done and status
NextLife ==
  \/ \E id \in 1..(nextId - 1) : toggleTask(id) /\ UNCHANGED uiVars
  \/ \E id \in 1..(nextId - 1), st \in {"pending", "completed", "archived"} :
       handleStatusChange(id, st) /\ UNCHANGED uiVars
  \/ \E all \in BOOLEAN : tickTasksByText(SearchMilk, all) /\ UNCHANGED uiVars
  \/ batchComplete /\ UNCHANGED uiVars
  \/ batchArchive /\ UNCHANGED uiVars
  \/ RecurrenceEffect /\ UNCHANGED uiVars
  \/ clearFeedback /\ UNCHANGED uiVars

SpecLife == Init /\ [][NextLife]_vars

----------------------------------------------------------------------------
(* Claims about the store under all its writers *)

\* the reminders of the list ts, as (task index, reminder index) pairs
ReminderAt(ts) == {<<i, k>> \in (1..Len(ts)) \X (1..2) : k <= Len(ts[i].reminders)}

\* C9: under every interleaving of reminder passes, user commands, async
\* additions and regeneration, a reminder that is notified stays notified
\* for as long as it exists (reminders are told apart by their ids).
C9_NotifiedNeverReset ==
  [][\A p \in ReminderAt(tasks) : \A q \in ReminderAt(tasks') :
       LET old == tasks[p[1]].reminders[p[2]]
           new == tasks'[q[1]].reminders[q[2]]
       IN (old.id = new.id /\ old.notified) => new.notified]_vars

\* C25: no update of the store is lost under interleaving: when an add
\* that was suspended on the classifier completes, the store holds the new
\* task and still holds every task it held just before, with the edits,
\* the notified marks and the new occurrences made while the add waited.
C25_AddKeepsOtherUpdates ==
  [][\A k \in 1..MaxPending, label \in ClassifierLabels :
       addTaskResolve(k, label) =>
         /\ \E j \in 1..Len(tasks') : tasks'[j].text = pendingAdds[k].text
         /\ \A i \in 1..Len(tasks) : \E j \in 1..Len(tasks') : tasks'[j] = tasks[i]]_vars

\* C10: in every reachable state, every task has done = true exactly when
\* its status is "completed".
C10_DoneIffCompleted ==
  \A i \in 1..Len(tasks) : tasks[i].done <=> (tasks[i].status = "completed")

\* C11: changing the status of a pending, not-done task to "completed"
\* through the status control leaves that task with status "completed" and
\* done = TRUE.
C11_StatusChangeCompletes ==
  [][\A i \in 1..Len(tasks) :
       (/\ tasks[i].status = "pending"
        /\ ~tasks[i].done
        /\ handleStatusChange(tasks[i].id, "completed"))
       => (tasks'[i].status = "completed" /\ tasks'[i].done)]_vars

\* the default tag of classifyTask
GeneralTag == <<"g","e","n","e","r","a","l">>

\* C20: when the classifier call of an addTask without a tag fails (fetch
\* rejects, or the body is not JSON), the task is still added to the store,
\* with the default tag.
C20_ClassifierFailureKeepsTask ==
  [][\A k \in 1..Len(pendingAdds) :
       addTaskReject(k)
       => \E i \in 1..Len(tasks') :
            /\ tasks'[i].text = pendingAdds[k].text
            /\ tasks'[i].tag = GeneralTag]_vars

----------------------------------------------------------------------------
(* The specification of the parser: parseCommand applied to the text of
   the input box at some time of some day of the week *)

InitParse ==
  /\ tasks = <<>>
  /\ nextId = 1
  /\ feedbackMessage = NoFeedback
  /\ now \in ParserClocks
  /\ lastCheckTime = now
  /\ notifications = <<>>
  /\ effectPending = FALSE
  /\ pendingAdds = <<>>
  /\ input \in ParserInputs
  /\ result = NoResult
  /\ view = InitialView
  /\ isLoading = FALSE
  /\ llmCalls = <<>>

\* const result = parseCommand(input)
Parse ==
  /\ result = NoResult
  /\ result' = ParseCommandAt(input, now)
  /\ UNCHANGED <<tasks, nextId, feedbackMessage, now, lastCheckTime, notifications,
                 effectPending, pendingAdds, input, view, isLoading, llmCalls>>

NextParse == Parse

SpecParse == InitParse /\ [][NextParse]_vars

----------------------------------------------------------------------------
(* Claims about the parser *)

\* the parser has run on the text of the input box
Parsed == result # NoResult

\* the literals of the calendar rule
CalendarLiterals ==
  {<<"c","a","l","e","n","d","a","r">>, <<"v","i","e","w"," ","c","a","l","e","n","d","a","r">>, <<"s","h","o","w"," ","c","a","l","e","n","d","a","r">>, <<"t","o","g","g","l","e"," ","c","a","l","e","n","d","a","r">>}

\* C28: 'calendar', 'view calendar', 'show calendar' and 'toggle calendar'
\* are parsed as type 'calendar', 'dark mode' as 'dark' and 'light mode' as
\* 'light': no earlier rule captures one of these literals.
C28_CalendarAndThemeLiterals ==
  Parsed =>
    /\ input \in CalendarLiterals => result.type = "calendar"
    /\ input = <<"d","a","r","k"," ","m","o","d","e">> => result.type = "dark"
    /\ input = <<"l","i","g","h","t"," ","m","o","d","e">> => result.type = "light"

\* C12: parseCommand returns confidence 1 and a type other than "unknown"
\* for every input of the command grammar, and for every other non-empty
\* input type "unknown", confidence 0 and the trimmed, lower-cased input as
\* taskText.
C12_ConfidenceFollowsGrammar ==
  Parsed =>
    IF input \in GrammarInputs
      THEN result.confidence = 1 /\ result.type # "unknown"
      ELSE /\ result.type = "unknown"
           /\ result.confidence = 0
           /\ result.taskText = toLowerCase(trim(input))

\* 23:59:59 of the day that is `days` days after the day of time clock
LastSecond(clock, days) ==
  ((clock \div DaySec) + days) * DaySec + 23 * 3600 + 59 * 60 + 59

\* C13: `due today <text>` parses to type "due" with dueSpec "today", the
\* whole text as searchTerm and 23:59:59 of the current date as dueDate, at
\* every time of day and for texts of one or more words; `due tomorrow
\* <text>` likewise with 23:59:59 of the next date.
C13_DueTodayTomorrow ==
  \A text \in DueTexts :
    /\ (Parsed /\ input = Join(<<"d","u","e"," ","t","o","d","a","y">>, text)) =>
         /\ result.type = "due"
         /\ result.dueSpec = <<"t","o","d","a","y">>
         /\ result.searchTerm = text
         /\ result.dueDate = LastSecond(now, 0)
    /\ (Parsed /\ input = Join(<<"d","u","e"," ","t","o","m","o","r","r","o","w">>, text)) =>
         /\ result.type = "due"
         /\ result.dueSpec = <<"t","o","m","o","r","r","o","w">>
         /\ result.searchTerm = text
         /\ result.dueDate = LastSecond(now, 1)

\* C14: for `due next <weekday> <text>`, with every current weekday and
\* every target weekday, the due date is 1 to 7 days after today, falls on
\* the target weekday, and is 7 days after today when the target is today's
\* weekday.
C14_DueNextWeekday ==
  \A n \in 1..7, text \in DueTexts :
    (Parsed /\ input = Join(Join(<<"d","u","e"," ","n","e","x","t">>, DayNames[n]), text)) =>
      LET days == (result.dueDate \div DaySec) - (now \div DaySec)
      IN /\ result.type = "due"
         /\ result.dueDate # Undefined
         /\ days \in 1..7
         /\ (result.dueDate \div DaySec) % 7 = n - 1
         /\ ((now \div DaySec) % 7 = n - 1 => days = 7)

\* `due next monday buy milk` parsed on a Monday: due the Monday after
C14_Witness ==
  /\ Parsed
  /\ input = <<"d","u","e"," ","n","e","x","t"," ","m","o","n","d","a","y"," ","b","u","y"," ","m","i","l","k">>
  /\ (now \div DaySec) % 7 = 1
  /\ result.dueDate = LastSecond(now, 7)

\* C15: a due command whose date spec is not today, tomorrow or next
\* <weekday> parses as type "unknown" with confidence 0, and no result of
\* type "due" lacks a due date.
C15_MalformedDueIsUnknown ==
  Parsed =>
    /\ (input = <<"d","u","e"," ","s","o","m","e","d","a","y"," ","r","e","p","o","r","t">> =>
          result.type = "unknown" /\ result.confidence = 0)
    /\ (result.type = "due" => result.dueDate # Undefined)

\* the priority that the claim gives to a priority word
ClaimedPriority(word) ==
  CASE word \in {<<"h","i","g","h">>, <<"u","r","g","e","n","t">>, <<"i","m","p","o","r","t","a","n","t">>} -> "high"
    [] word \in {<<"m","e","d","i","u","m">>, <<"n","o","r","m","a","l">>} -> "medium"
    [] word = <<"l","o","w">> -> "low"

\* C16: `add <text> !<word>` parses with priority high for the words high,
\* urgent and important, medium for medium and normal, low for low, and
\* with the text without the marker as taskText.
C16_PriorityWords ==
  \A word \in PriorityWords :
    (Parsed /\ input = Join(<<"a","d","d"," ","b","u","y"," ","m","i","l","k">>, <<"!">> \o word)) =>
      /\ result.type = "add"
      /\ result.taskText = <<"b","u","y"," ","m","i","l","k">>
      /\ result.priority = ClaimedPriority(word)

----------------------------------------------------------------------------
(* The specification of the command line: texts are typed and submitted,
   the pipeline and the classifier answer *)

InitSubmit ==
  /\ tasks = <<StoredTask(1, BuyMilk)>>
  /\ nextId = 2
  /\ feedbackMessage = NoFeedback
  /\ now = 0
  /\ lastCheckTime = now
  /\ notifications = <<>>
  /\ effectPending = TRUE
  /\ pendingAdds = <<>>
  /\ InitUI

NextSubmit ==
  \/ \E text \in SubmitInputs : typeInput(text)
  \/ handleInputSubmit
  \/ \E outcome \in RemoteOutcomes, data \in RemoteTasks : fetchSettles(outcome, data)
  \/ pipelineReturns
  \/ \E k \in 1..MaxPending, label \in ClassifierLabels : addTaskResolve(k, label)
  \/ \E k \in 1..MaxPending : addTaskReject(k)
  \/ clearFeedback /\ UNCHANGED uiVars

SpecSubmit == InitSubmit /\ [][NextSubmit]_vars

----------------------------------------------------------------------------
(* Claims about the command line *)

\* the types whose case of the switch sets a field of the view
ViewTypes == {"filter", "help", "dark", "light", "summarize", "calendar", "view calendar"}

\* C17: every submission of a non-empty input ends in a change of the task
\* store or of the view, or in a feedback message: when handleInputSubmit
\* or the handler that awaited the pipeline has run to its end, the store
\* or the view has changed (or a setter of the view was called), a feedback
\* message is shown, or a call whose end shows one (the pipeline, the
\* classifier of addTask) is awaited.
C17_SubmissionNeverSilent ==
  [][(handleInputSubmit \/ pipelineReturns)
     => \/ tasks' # tasks
        \/ view' # view
        \/ result'.type \in ViewTypes
        \/ feedbackMessage' # NoFeedback
        \/ Len(pendingAdds') > Len(pendingAdds)
        \/ Len(llmCalls') > Len(llmCalls)]_vars

\* C18: parseTaskWithLLM is called for a text only when the text is not
\* empty and the rule-based parser returns the type 'unknown' for it.
C18_PipelineOnlyForUnknown ==
  \A i \in 1..Len(llmCalls) :
    /\ llmCalls[i].text # <<>>
    /\ ParseCommandAt(llmCalls[i].text, now).type = "unknown"

----------------------------------------------------------------------------
(* validateAndFixParsedData: the validation pass of the route
   /api/parse-task over the JSON the remote model generated *)

\* a value of the field priority of the JSON: a string, null, or an array
\* of strings
PriorityString(p) == [isArray |-> FALSE, items |-> <<p>>]
PriorityNull == [isArray |-> FALSE, items |-> <<>>]
PriorityArray(items) == [isArray |-> TRUE, items |-> items]

\* the JSON of the remote model: tags is an array of strings or something
\* else (tagsIsArray = FALSE); no answer of the model carries a due date
ModelData(title, tagsIsArray, tags, priority) ==
  [title |-> title, tagsIsArray |-> tagsIsArray, tags |-> tags, priority |-> priority]

\* const hasExplicitTags = originalText.includes('#') ||
\*   /\btag is\b/i.test(originalText) || /\bhashtag is\b/i.test(originalText)
hasExplicitTags(originalText) ==
  \/ includes(originalText, <<"#">>)
  \/ Test(<<<<Boundary, Lit(<<"t","a","g"," ","i","s">>), Boundary>>>>, toLowerCase(originalText))
  \/ Test(<<<<Boundary, Lit(<<"h","a","s","h","t","a","g"," ","i","s">>), Boundary>>>>, toLowerCase(originalText))

\* const hasExplicitPriority = originalText.includes('!') ||
\*   /\bpriority is\b/i.test(originalText)
hasExplicitPriority(originalText) ==
  \/ includes(originalText, <<"!">>)
  \/ Test(<<<<Boundary, Lit(<<"p","r","i","o","r","i","t","y"," ","i","s">>), Boundary>>>>, toLowerCase(originalText))

\* the first valid priority of an array, or the array itself when it has none
FirstValidPriority(priority) ==
  With(SelectSeq(priority.items, LAMBDA p : p \in {"high", "medium", "low"}),
       LAMBDA validPriorities :
    IF Len(validPriorities) > 0 THEN PriorityString(validPriorities[1]) ELSE priority)

\* validatedData.priority
ValidatedPriority(data, explicit) ==
  IF ~explicit THEN PriorityNull
  ELSE IF ~data.priority.isArray THEN data.priority
  ELSE FirstValidPriority(data.priority)

\* validatedData.tags
ValidatedTags(data, explicit, originalText) ==
  IF Test(<<DeleteTagPattern>>, toLowerCase(originalText)) THEN <<>>
  ELSE IF explicit /\ data.tagsIsArray THEN data.tags
  ELSE <<>>

\* validateAndFixParsedData(data, originalText).  The title stays as it is:
\* group 1 of the pattern of the reminder rewrite is lazy and followed only
\* by an optional group, so it is empty and the rewrite is skipped.
validateAndFixParsedData(data, originalText) ==
  [title |-> data.title,
   tags |-> ValidatedTags(data, hasExplicitTags(originalText), originalText),
   priority |-> ValidatedPriority(data, hasExplicitPriority(originalText))]

\* the validated data of the texts and answers of the model, computed once
ModelAnswers ==
  {ModelData(BuyMilk, isArray, tags, priority) :
     isArray \in BOOLEAN,
     tags \in {<<>>, <<<<"s","h","o","p","p","i","n","g">>>>},
     priority \in {PriorityNull, PriorityString("high"), PriorityString("low"),
                   PriorityString("urgent"), PriorityArray(<<"urgent", "medium">>),
                   PriorityArray(<<>>)}}

ValidatedTable ==
  {<<text, data, validateAndFixParsedData(data, text)>> :
     text \in ExtractTexts, data \in ModelAnswers}

Validated(data, text) ==
  (CHOOSE entry \in ValidatedTable : entry[1] = text /\ entry[2] = data)[3]

\* the task of the local parser in the form of the validated data
LocalData(task) ==
  [title |-> task.title, tags |-> task.tags,
   priority |-> IF task.priority = "undefined" THEN PriorityNull
                ELSE PriorityString(task.priority)]

\* an extraction: the tier that made it, its text, the answer of the
\* remote model and the extracted data
Extraction(tier, text, data, extracted) ==
  [tier |-> tier, text |-> text, data |-> data, extracted |-> extracted]

----------------------------------------------------------------------------
(* The specification of the extraction: the text of the input box is
   extracted by the route (Tier A) or by the local parser (Tier C) *)

InitExtract ==
  /\ tasks = <<>>
  /\ nextId = 1
  /\ feedbackMessage = NoFeedback
  /\ now = 0
  /\ lastCheckTime = now
  /\ notifications = <<>>
  /\ effectPending = FALSE
  /\ pendingAdds = <<>>
  /\ input \in ExtractTexts
  /\ result = NoResult
  /\ view = InitialView
  /\ isLoading = FALSE
  /\ llmCalls = <<>>

\* POST of the route: the remote model answers with data, and the body is
\* validateAndFixParsedData(parsedData, text)
routeValidates(data) ==
  /\ llmCalls = <<>>
  /\ llmCalls' = <<Extraction("A", input, data, Validated(data, input))>>
  /\ UNCHANGED <<tasks, nextId, feedbackMessage, now, lastCheckTime, notifications,
                 effectPending, pendingAdds, input, result, view, isLoading>>

\* clientSideParseTask(text)
localParses ==
  /\ llmCalls = <<>>
  /\ llmCalls' = <<Extraction("C", input, ModelData(<<>>, FALSE, <<>>, PriorityNull),
                              LocalData(LocalParse(input, now)))>>
  /\ UNCHANGED <<tasks, nextId, feedbackMessage, now, lastCheckTime, notifications,
                 effectPending, pendingAdds, input, result, view, isLoading>>

NextExtract ==
  \/ \E data \in ModelAnswers : routeValidates(data)
  \/ localParses

SpecExtract == InitExtract /\ [][NextExtract]_vars

----------------------------------------------------------------------------
(* Claims about the extraction *)

\* the text holds one of the markers #word, `tag is X`, `hashtag is X`,
\* !word, `priority is X`
MarkerTable ==
  {<<text,
     \/ Test(<<<<Lit(<<"#">>), Word>>, <<Lit(<<"!">>), Word>>>>, text)
     \/ Test(<<<<Alt(<<<<"t","a","g">>, <<"h","a","s","h","t","a","g">>, <<"p","r","i","o","r","i","t","y">>>>), Lit(<<" ","i","s"," ">>), Word>>>>,
             toLowerCase(text))>> : text \in ExtractTexts}

HasMarker(text) == (CHOOSE entry \in MarkerTable : entry[1] = text)[2]

\* C21: for every text without one of the markers #word, `tag is X`,
\* `hashtag is X`, !word and `priority is X`, the extraction of the route
\* after its validation pass and the extraction of the local parser have no
\* tag and no priority, whatever the remote model answered.
C21_NoMarkerNoTagNoPriority ==
  \A i \in 1..Len(llmCalls) :
    ~HasMarker(llmCalls[i].text) =>
      /\ llmCalls[i].extracted.tags = <<>>
      /\ llmCalls[i].extracted.priority = PriorityNull

----------------------------------------------------------------------------
(* The specification of the dispatch: commands of the kinds archive,
   snooze, subtask and project are typed and submitted over a store with
   a completed task *)

InitDispatch ==
  /\ tasks = WithToggle(<<StoredTask(1, BuyMilk)>>, 1)
  /\ nextId = 2
  /\ feedbackMessage = NoFeedback
  /\ now = 0
  /\ lastCheckTime = now
  /\ notifications = <<>>
  /\ effectPending = TRUE
  /\ pendingAdds = <<>>
  /\ InitUI

NextDispatch ==
  \/ \E text \in DispatchInputs : typeInput(text)
  \/ handleInputSubmit
  \/ \E k \in 1..MaxPending, label \in ClassifierLabels : addTaskResolve(k, label)
  \/ \E k \in 1..MaxPending : addTaskReject(k)
  \/ clearFeedback /\ UNCHANGED uiVars

SpecDispatch == InitDispatch /\ [][NextDispatch]_vars

----------------------------------------------------------------------------
(* Claims about the dispatch *)

\* C22: every command kind that the parser recognizes with confidence 1 is
\* dispatched to its own mutation: no archive, snooze, subtask or project
\* command is handed to addTask or becomes a task whose title is the text
\* of the command.
C22_CommandNeverBecomesTask ==
  /\ \A i \in 1..Len(tasks) : tasks[i].text \notin DispatchInputs
  /\ \A k \in 1..Len(pendingAdds) : pendingAdds[k].text \notin DispatchInputs

----------------------------------------------------------------------------
(* detectConflicts and findNextAvailableSlot of utils/conflict.ts.  Times
   are seconds and durations are minutes *)

\* a task as conflict.ts reads it
ConflictTask(id, done, status, dueDate, estimatedDuration, startTime) ==
  [id |-> id, done |-> done, status |-> status, dueDate |-> dueDate,
   estimatedDuration |-> estimatedDuration, startTime |-> startTime]

\* minutes * 60 * 1000 milliseconds, in seconds
Minutes(minutes) == minutes * 60

\* task.startTime || task.dueDate
StartOf(task) == IF Truthy(task.startTime) THEN task.startTime ELSE task.dueDate

\* task.estimatedDuration || defaultDuration
DurationOf(task, defaultDuration) ==
  IF Truthy(task.estimatedDuration) THEN task.estimatedDuration ELSE defaultDuration

\* the end of the window of a task
EndOf(task, defaultDuration) == StartOf(task) + Minutes(DurationOf(task, defaultDuration))

\* the three clauses of the test of overlap
Overlaps(taskStartTime, taskEndTime, existingStartTime, existingEndTime) ==
  \/ (taskStartTime >= existingStartTime /\ taskStartTime < existingEndTime)
  \/ (taskEndTime > existingStartTime /\ taskEndTime <= existingEndTime)
  \/ (taskStartTime <= existingStartTime /\ taskEndTime >= existingEndTime)

\* the callback of existingTasks.filter in detectConflicts
ConflictsWith(newTask, task, defaultDuration) ==
  /\ ~(task.done \/ task.status = "archived")
  /\ Truthy(task.dueDate)
  /\ Overlaps(StartOf(newTask), EndOf(newTask, defaultDuration),
              StartOf(task), EndOf(task, defaultDuration))

\* const conflictingTasks = existingTasks.filter(...)
ConflictingTasks(newTask, existingTasks, defaultDuration) ==
  SelectSeq(existingTasks, LAMBDA task : ConflictsWith(newTask, task, defaultDuration))

\* what a call of detectConflicts ends with: a ConflictResult, or the
\* RangeError of a call stack that overflowed
ConflictResult(hasConflict, conflictingTasks, suggestedTime) ==
  [thrown |-> FALSE, hasConflict |-> hasConflict, conflictingTasks |-> conflictingTasks,
   suggestedTime |-> suggestedTime]

NoConflict == ConflictResult(FALSE, <<>>, Undefined)

RangeError ==
  [thrown |-> TRUE, hasConflict |-> FALSE, conflictingTasks |-> <<>>,
   suggestedTime |-> Undefined]

\* findNextAvailableSlot ended by the RangeError
Overflowed == -2

\* (a.startTime || a.dueDate || 0)
SortKey(task) ==
  IF Truthy(task.startTime) THEN task.startTime
  ELSE IF Truthy(task.dueDate) THEN task.dueDate ELSE 0

\* Array.prototype.sort by SortKey, which is stable
RECURSIVE SortByStart(_)
SortByStart(ts) ==
  IF ts = <<>> THEN <<>>
  ELSE With(SortByStart(SubSeq(ts, 1, Len(ts) - 1)), LAMBDA sorted :
    With(ts[Len(ts)], LAMBDA last :
      With(Cardinality({i \in 1..Len(sorted) : SortKey(sorted[i]) <= SortKey(last)}), LAMBDA n :
        SubSeq(sorted, 1, n) \o <<last>> \o SubSeq(sorted, n + 1, Len(sorted)))))

\* const sortedTasks = existingTasks.filter(...).sort(...)
SortedTasks(existingTasks) ==
  SortByStart(SelectSeq(existingTasks, LAMBDA t :
    Truthy(t.dueDate) /\ ~t.done /\ t.status # "archived"))

Max(a, b) == IF a >= b THEN a ELSE b

\* detectConflicts and findNextAvailableSlot call each other.  calls holds
\* the arguments of the calls of detectConflicts that have not returned: a
\* call with the arguments of one of them repeats it without end, and the
\* stack overflows.  clock is Date.now().
RECURSIVE detectConflictsIn(_, _, _, _, _)
RECURSIVE findNextAvailableSlot(_, _, _, _, _)
RECURSIVE SlotLoop(_, _, _, _, _, _, _)

\* the loop over sortedTasks from its k-th task on
SlotLoop(calls, task, sortedTasks, durationMinutes, k, currentEnd, clock) ==
  IF k > Len(sortedTasks) THEN currentEnd
  ELSE With(SortKey(sortedTasks[k]), LAMBDA taskStart :
    With(taskStart + Minutes(DurationOf(sortedTasks[k], durationMinutes)), LAMBDA taskEnd :
      \* without a gap before the task, the loop goes on as after a gap
      \* whose check found a conflict
      With(IF currentEnd + Minutes(durationMinutes) <= taskStart
             THEN detectConflictsIn(calls, [task EXCEPT !.startTime = currentEnd,
                                                        !.dueDate = currentEnd],
                                    sortedTasks, durationMinutes, clock)
             ELSE ConflictResult(TRUE, <<>>, Undefined), LAMBDA checked :
        IF checked.thrown THEN Overflowed
        ELSE IF ~checked.hasConflict THEN currentEnd
        ELSE SlotLoop(calls, task, sortedTasks, durationMinutes, k + 1,
                      Max(currentEnd, taskEnd), clock))))

findNextAvailableSlot(calls, task, existingTasks, durationMinutes, clock) ==
  With(IF Truthy(task.dueDate) THEN task.dueDate ELSE clock, LAMBDA startTime :
    With(SortedTasks(existingTasks), LAMBDA sortedTasks :
      IF Len(sortedTasks) = 0 THEN startTime
      ELSE With(detectConflictsIn(calls, task, sortedTasks, durationMinutes, clock),
                LAMBDA original :
        IF original.thrown THEN Overflowed
        ELSE IF ~original.hasConflict THEN startTime
        ELSE SlotLoop(calls, task, sortedTasks, durationMinutes, 1,
                      startTime + Minutes(durationMinutes), clock))))

detectConflictsIn(calls, newTask, existingTasks, defaultDuration, clock) ==
  IF <<newTask, existingTasks, defaultDuration>> \in calls THEN RangeError
  ELSE IF ~Truthy(newTask.dueDate) THEN NoConflict
  ELSE With(ConflictingTasks(newTask, existingTasks, defaultDuration), LAMBDA conflictingTasks :
    IF Len(conflictingTasks) = 0 THEN NoConflict
    ELSE With(findNextAvailableSlot(calls \cup {<<newTask, existingTasks, defaultDuration>>},
                                    newTask, existingTasks,
                                    DurationOf(newTask, defaultDuration), clock),
              LAMBDA suggestedTime :
      IF suggestedTime = Overflowed THEN RangeError
      ELSE ConflictResult(TRUE, conflictingTasks, suggestedTime)))

\* detectConflicts(newTask, existingTasks, defaultDuration)
detectConflicts(newTask, existingTasks, defaultDuration, clock) ==
  detectConflictsIn({}, newTask, existingTasks, defaultDuration, clock)

----------------------------------------------------------------------------
(* The specification of the conflict check: detectConflicts is called with
   a candidate, the tasks of the store and a default duration.  Times are
   multiples of half an hour after the epoch. *)

HalfHour == 30 * 60

\* the existing tasks: pending with and without a due date and a duration,
\* done, archived, and with a start time before the due date
ExistingTasks ==
  {ConflictTask(0, FALSE, "pending", dueDate, duration, Undefined) :
     dueDate \in {Undefined, 1 * HalfHour, 2 * HalfHour, 4 * HalfHour},
     duration \in {Undefined, 30, 90}}
  \cup {ConflictTask(0, TRUE, "completed", 2 * HalfHour, Undefined, Undefined),
        ConflictTask(0, FALSE, "archived", 2 * HalfHour, Undefined, Undefined),
        ConflictTask(0, FALSE, "pending", 4 * HalfHour, 30, 3 * HalfHour)}

\* the lists of at most MaxExisting existing tasks, with their positions
\* as identifiers
ExistingLists ==
  UNION {{[i \in 1..n |-> [f[i] EXCEPT !.id = i]] : f \in [1..n -> ExistingTasks]} :
           n \in 0..MaxExisting}

\* the candidates
Candidates ==
  {ConflictTask(0, FALSE, "pending", dueDate, duration, startTime) :
     dueDate \in {Undefined, 1 * HalfHour, 2 * HalfHour, 3 * HalfHour},
     duration \in {Undefined, 30, 90},
     startTime \in {Undefined, 1 * HalfHour}}

DefaultDurations == {30, 60}

\* the call that is made: pendingAdds holds its candidate and its default
\* duration, tasks the existing tasks, and result what it ended with
InitConflict ==
  /\ tasks \in ExistingLists
  /\ nextId = 1
  /\ feedbackMessage = NoFeedback
  /\ now = 0
  /\ lastCheckTime = now
  /\ notifications = <<>>
  /\ effectPending = FALSE
  /\ pendingAdds \in {<<[newTask |-> newTask, defaultDuration |-> defaultDuration]>> :
                        newTask \in Candidates, defaultDuration \in DefaultDurations}
  /\ input = <<>>
  /\ result = NoResult
  /\ view = InitialView
  /\ isLoading = FALSE
  /\ llmCalls = <<>>

\* result = detectConflicts(newTask, tasks, defaultDuration)
detect ==
  /\ result = NoResult
  /\ result' = detectConflicts(pendingAdds[1].newTask, tasks,
                               pendingAdds[1].defaultDuration, now)
  /\ UNCHANGED <<tasks, nextId, feedbackMessage, now, lastCheckTime, notifications,
                 effectPending, pendingAdds, input, view, isLoading, llmCalls>>

NextConflict == detect

SpecConflict == InitConflict /\ [][NextConflict]_vars

----------------------------------------------------------------------------
(* Claims about the conflict check *)

\* the call of detectConflicts has ended
Detected == result # NoResult

\* the half-open windows [start, start + duration) of the candidate and of
\* the task intersect
WindowsIntersect(newTask, task, defaultDuration) ==
  /\ StartOf(newTask) < EndOf(task, defaultDuration)
  /\ StartOf(task) < EndOf(newTask, defaultDuration)

\* the existing tasks that are not done, not archived, have a due date and
\* whose window intersects the window of the candidate
IntersectingTasks(newTask, existingTasks, defaultDuration) ==
  SelectSeq(existingTasks, LAMBDA task :
    /\ ~task.done
    /\ task.status # "archived"
    /\ task.dueDate # Undefined
    /\ WindowsIntersect(newTask, task, defaultDuration))

\* C23: detectConflicts reports an existing task as conflicting if and
\* only if the task is not done, not archived, has a due date and its
\* half-open window intersects the half-open window of the candidate
\* (durations defaulting to defaultDuration); a candidate without a due
\* date has hasConflict = false and no conflicting task.
C23_ConflictIffWindowsIntersect ==
  Detected =>
    LET newTask == pendingAdds[1].newTask
        expected == IF newTask.dueDate = Undefined THEN <<>>
                    ELSE IntersectingTasks(newTask, tasks, pendingAdds[1].defaultDuration)
    IN /\ ~result.thrown
       /\ result.conflictingTasks = expected
       /\ result.hasConflict = (expected # <<>>)

\* C24: whenever detectConflicts returns hasConflict = true, the candidate
\* moved to start and be due at suggestedTime, with its duration, has no
\* conflict with the same existing tasks under the same defaultDuration.
C24_SuggestedTimeIsFree ==
  (Detected /\ ~result.thrown /\ result.hasConflict) =>
    ConflictingTasks([pendingAdds[1].newTask EXCEPT !.startTime = result.suggestedTime,
                                                    !.dueDate = result.suggestedTime],
                     tasks, pendingAdds[1].defaultDuration) = <<>>

----------------------------------------------------------------------------
(* The specification of the watcher after completions: the user completes
   tasks and never reopens one, and the recurrence effect runs *)

\* the user completes a task that is not done (toggleTask from the list)
completeTask(id) ==
  /\ \E i \in 1..Len(tasks) : tasks[i].id = id /\ ~tasks[i].done
  /\ toggleTask(id)

NextWatch ==
  \/ \E id \in 1..(nextId - 1) : completeTask(id) /\ UNCHANGED uiVars
  \/ RecurrenceEffect /\ UNCHANGED uiVars

SpecWatch == InitRecur /\ [][NextWatch]_vars

\* C26: the recurrence engine appends exactly one new occurrence for each
\* completion of a recurring task and then makes no further change until
\* the user acts again: the store, which starts with one task, never holds
\* more occurrences than completed tasks.
C26_OneOccurrencePerCompletion ==
  Len(tasks) <= 1 + Cardinality({i \in 1..Len(tasks) : tasks[i].done})

----------------------------------------------------------------------------
(* The specification of the poller: two stored tasks with a reminder each,
   the clock, the calls of checkReminders, the forced check and the
   controls that complete and archive *)

\* the stored tasks: their reminders fall due one debounce gap after the
\* page is opened and two seconds later
InitPoll ==
  /\ tasks = <<[StoredTask(1, BuyMilk) EXCEPT
                  !.reminders = <<[id |-> 3, time |-> DebounceSec, notified |-> FALSE,
                                   type |-> "absolute"]>>],
               [StoredTask(2, DrinkMilk) EXCEPT
                  !.reminders = <<[id |-> 4, time |-> DebounceSec + 2, notified |-> FALSE,
                                   type |-> "absolute"]>>]>>
  /\ nextId = 5
  /\ feedbackMessage = NoFeedback
  /\ now = 0
  /\ lastCheckTime = now
  /\ notifications = <<>>
  /\ effectPending = FALSE
  /\ pendingAdds = <<>>
  /\ InitUI

NextPoll ==
  \/ Tick(1) /\ UNCHANGED uiVars
  \/ pollReminders /\ UNCHANGED uiVars
  \/ checkRemindersNow /\ UNCHANGED uiVars
  \/ \E id \in 1..2 : toggleTask(id) /\ UNCHANGED uiVars
  \/ batchArchive /\ UNCHANGED uiVars

\* the render after a change of lastCheckTime runs the effect of the hook
\* again, which calls checkReminders at once
SpecPoll == InitPoll /\ [][NextPoll]_vars /\ WF_vars(pollReminders /\ UNCHANGED uiVars)

----------------------------------------------------------------------------
(* Claims about the poller *)

\* a forced check has reset lastCheckTime and its pass has not run yet
Forced == lastCheckTime = TimeZero

\* a pass has run at the present time and left no reminder that is due
Evaluated ==
  /\ lastCheckTime = now
  /\ \A i \in 1..Len(tasks) : ~HasTriggered(tasks[i], now)

\* C27: a forced check (checkRemindersNow) leads to a pass that evaluates
\* the reminders, also when the previous pass was less than 5 seconds
\* before; a periodic or mount-time call within 5 seconds of the previous
\* pass marks nothing and shows no notification.
C27_ForcedCheckEvaluates ==
  /\ Forced ~> Evaluated
  /\ [][(checkRemindersNow /\ ~Debounced(now, lastCheckTime)) => Evaluated']_vars
  /\ [][(pollReminders /\ lastCheckTime # TimeZero /\ now - lastCheckTime < DebounceSec)
          => (tasks' = tasks /\ notifications' = <<>>)]_vars

\* a pass has shown the notification of the second task alone, less than
\* 5 seconds after the reminder of the first task fell due: the pass that
\* marked the first reminder was less than 5 seconds before it
C27_Witness ==
  /\ now < 2 * DebounceSec
  /\ lastCheckTime = now
  /\ notifications = <<2>>
  /\ tasks[1].reminders[1].notified
  /\ tasks[2].reminders[1].notified

\* the task of the list ts with the identifier id
TaskById(ts, id) == ts[CHOOSE i \in 1..Len(ts) : ts[i].id = id]

\* C29: a reminder pass never shows a notification for a task that is done
\* (by tick, toggle or batch complete) or archived.
C29_NoNotificationForCompleted ==
  [][(pollReminders \/ checkRemindersNow) =>
       \A k \in 1..Len(notifications') :
         /\ ~TaskById(tasks, notifications'[k]).done
         /\ TaskById(tasks, notifications'[k]).status # "archived"]_vars

----------------------------------------------------------------------------
(* filterAndSortTasks (conflict.ts and the older one of helpers.ts) and the
   sort of arrays it calls.  An array of the model is a sequence; Null is
   the value null of a filter argument. *)

\* most tasks of an array that is sorted
MaxSort == 3

Null == "null"

\* a task as the comparison and the filters read it
SortTask(id, done, priority, tag, createdAt) ==
  [id |-> id, done |-> done, priority |-> priority, tag |-> tag,
   category |-> "undefined", project |-> "undefined", createdAt |-> createdAt]

priorityValues == [high |-> 0, medium |-> 1, low |-> 2]

\* the comparison function of sortBy 'priority'
ComparePriority(a, b) ==
  IF a.done # b.done THEN (IF a.done THEN 1 ELSE 0 - 1)
  ELSE IF a.priority # "undefined" /\ b.priority # "undefined" /\ a.priority # b.priority
    THEN priorityValues[a.priority] - priorityValues[b.priority]
  ELSE b.createdAt - a.createdAt

\* the last index of the run that starts the array: the elements from idx
\* on are compared with the one before them until the order breaks
RECURSIVE RunEnd(_, _, _)
RunEnd(array, idx, isDescending) ==
  IF idx > Len(array) THEN Len(array)
  ELSE With(ComparePriority(array[idx], array[idx - 1]), LAMBDA order :
         IF (isDescending /\ order >= 0) \/ (~isDescending /\ order < 0)
           THEN idx - 1
           ELSE RunEnd(array, idx + 1, isDescending))

\* the array with its first n elements in reverse order
ReverseRange(array, n) ==
  [k \in 1..Len(array) |-> IF k <= n THEN array[n + 1 - k] ELSE array[k]]

\* the run that starts the array, made ascending: its length and the array
CountAndMakeRun(array) ==
  With(ComparePriority(array[2], array[1]) < 0, LAMBDA isDescending :
    With(RunEnd(array, 3, isDescending), LAMBDA runLength :
      [length |-> runLength,
       array |-> IF isDescending THEN ReverseRange(array, runLength) ELSE array]))

\* the place of the pivot among the elements before it, by bisection;
\* left and right count from 0
RECURSIVE BinarySearch(_, _, _, _)
BinarySearch(array, pivot, left, right) ==
  IF left >= right THEN left
  ELSE With(left + (right - left) \div 2, LAMBDA mid :
         IF ComparePriority(pivot, array[mid + 1]) < 0
           THEN BinarySearch(array, pivot, left, mid)
           ELSE BinarySearch(array, pivot, mid + 1, right))

\* the array with the element at start moved to left (both from 0)
MoveTo(array, start, left) ==
  [k \in 1..Len(array) |->
     IF k = left + 1 THEN array[start + 1]
     ELSE IF k > left + 1 /\ k <= start + 1 THEN array[k - 1]
     ELSE array[k]]

\* the elements from start on are inserted, one after the other, into the
\* sorted elements before them
RECURSIVE BinaryInsertionSort(_, _)
BinaryInsertionSort(array, start) ==
  IF start >= Len(array) THEN array
  ELSE BinaryInsertionSort(
         MoveTo(array, start, BinarySearch(array, array[start + 1], 0, start)),
         start + 1)

\* Array.prototype.sort of an array shorter than 64 with the comparison
\* function of sortBy 'priority'
ArraySort(array) ==
  IF Len(array) < 2 THEN array
  ELSE With(CountAndMakeRun(array), LAMBDA run :
         BinaryInsertionSort(run.array, run.length))

\* the filters by category, tag and project
Filtered(ts, tag, project, category) ==
  SelectSeq(ts, LAMBDA t :
    /\ category # Null => t.category = category
    /\ tag # Null => t.tag = tag
    /\ project # Null => t.project = project)

\* filterAndSortTasks({ tasks, tag, project, category, sortBy: 'priority' }):
\* the returned array; the filters and the sort work on a copy
filterAndSortTasks(ts, tag, project, category) ==
  ArraySort(Filtered(ts, tag, project, category))

\* filterAndSortTasks(tasks, filterTag) of helpers.ts: the returned array
LegacyFilterAndSortTasks(ts, filterTag) ==
  ArraySort(IF filterTag # Null THEN SelectSeq(ts, LAMBDA t : t.tag = filterTag) ELSE ts)

----------------------------------------------------------------------------
(* The specification of the sort: filterAndSortTasks applied once to an
   array of at most MaxSort tasks *)

\* the orders of creation of n tasks
CreationOrders(n) ==
  {f \in [1..n -> 1..n] : \A i, j \in 1..n : f[i] = f[j] => i = j}

\* the arrays: every done flag and priority, the tag home on the tasks with
\* an odd identifier, every order of creation
SortArrays ==
  UNION {{[k \in 1..n |->
             SortTask(k, flags[k][1], flags[k][2],
                      IF k % 2 = 1 THEN "home" ELSE "undefined", order[k])] :
            flags \in [1..n -> BOOLEAN \X {"high", "medium", "low", "undefined"}],
            order \in CreationOrders(n)} : n \in 0..MaxSort}

\* tasks is the array handed to the function, pendingAdds its arguments
InitSort ==
  /\ tasks \in SortArrays
  /\ nextId = 1
  /\ feedbackMessage = NoFeedback
  /\ now = 0
  /\ lastCheckTime = now
  /\ notifications = <<>>
  /\ effectPending = FALSE
  /\ pendingAdds \in {<<[tasks |-> tasks, tag |-> tag]>> : tag \in {Null, "home"}}
  /\ input = <<>>
  /\ result = NoResult
  /\ view = InitialView
  /\ isLoading = FALSE
  /\ llmCalls = <<>>

\* result = filterAndSortTasks({ tasks, tag, sortBy: 'priority' })
sortTasks ==
  /\ result = NoResult
  /\ result' = [type |-> "sorted",
                tasks |-> filterAndSortTasks(tasks, pendingAdds[1].tag, Null, Null)]
  /\ UNCHANGED <<tasks, nextId, feedbackMessage, now, lastCheckTime, notifications,
                 effectPending, pendingAdds, input, view, isLoading, llmCalls>>

\* result = filterAndSortTasks(tasks, filterTag) of helpers.ts, which sorts
\* the array it was handed when there is no filter
sortTasksLegacy ==
  /\ result = NoResult
  /\ result' = [type |-> "legacy",
                tasks |-> LegacyFilterAndSortTasks(tasks, pendingAdds[1].tag)]
  /\ tasks' = IF pendingAdds[1].tag = Null THEN result'.tasks ELSE tasks
  /\ UNCHANGED <<nextId, feedbackMessage, now, lastCheckTime, notifications,
                 effectPending, pendingAdds, input, view, isLoading, llmCalls>>

NextSort == sortTasks \/ sortTasksLegacy

SpecSort == InitSort /\ [][NextSort]_vars

----------------------------------------------------------------------------
(* Claims about the sort *)

\* filterAndSortTasks of conflict.ts has returned
Sorted == result.type = "sorted"

\* the tasks the filter keeps
Kept == Filtered(pendingAdds[1].tasks, pendingAdds[1].tag, Null, Null)

\* out is a permutation of ts (the identifiers of ts differ)
IsPermutation(out, ts) ==
  /\ Len(out) = Len(ts)
  /\ {out[k] : k \in 1..Len(out)} = {ts[k] : k \in 1..Len(ts)}

\* a and b have priorities and that of a is lower
LowerPriority(a, b) ==
  /\ a.priority # "undefined"
  /\ b.priority # "undefined"
  /\ priorityValues[a.priority] > priorityValues[b.priority]

\* C30: filterAndSortTasks with sortBy 'priority' returns a permutation of
\* the filtered tasks in which the tasks that are not done precede the done
\* ones and, among tasks with the same done flag, no task precedes one of
\* higher priority, also when some tasks have no priority; the input array
\* keeps its order.
C30_PrioritySortOrders ==
  Sorted =>
    /\ IsPermutation(result.tasks, Kept)
    /\ \A i, j \in 1..Len(result.tasks) :
         i < j =>
           /\ ~(result.tasks[i].done /\ ~result.tasks[j].done)
           /\ result.tasks[i].done = result.tasks[j].done =>
                ~LowerPriority(result.tasks[i], result.tasks[j])
    /\ tasks = pendingAdds[1].tasks

====
